---- MODULE Spec2Model ----
(***************************************************************************)
(* Scheduling and delivery-gating engine of the Happy Manager bot:         *)
(* the cooldown store (db/cooldownRepo.ts), the cron scheduler             *)
(* (scheduler/scheduler.ts) and the scheduled delivery (scheduler/jobs.ts),*)
(* the content selection chain with the sent history (db/sentRepo.ts), the *)
(* tenant configuration repository (db/guildConfigRepo.ts) and the         *)
(* commands that use them.                                                 *)
(*                                                                         *)
(* Encodings.  Instants are integers, milliseconds since an epoch that is  *)
(* a Thursday 00:00:00.000 UTC (as 1970-01-01 is).  A zero-padded "HH:MM"   *)
(* string is the pair <<hh, mm>>; a cooldown key "a:b:c" is the tuple of   *)
(* its colon-separated parts.  A stored expires_at TEXT value is the       *)
(* record of its fixed-width fields (date, separator character, time of    *)
(* day), compared field by field as SQLite's BINARY collation compares the *)
(* characters.                                                             *)
(***************************************************************************)
EXTENDS Integers, Sequences, FiniteSets, TLC

VARIABLES
    now,            \* wall clock, ms (Date.now(), datetime('now'))
    cooldowns,      \* table cooldowns: key -> row | NoRow
    sentMessages,   \* table sent_messages, the rows of each guild_id, oldest first
    guildConfigs,   \* table guild_config: guildId -> config
    dayOffset,      \* whole days elapsed that `now` does not count
    pureCalls,      \* the calls of the pure functions made so far, oldest first
    configRows,     \* table guild_config as the repository stores it: a set of rows
    clientGuilds,   \* client.guilds.cache: guilds whose channel resolves
    schedulerTask,  \* module variable schedulerTask: "null" | "task"
    cronActive,     \* number of started node-cron tasks of this process
    ticks,          \* the processGuilds() invocations, oldest first
    delivered,      \* messages posted to the chat platform
    interactions,   \* the executeHappyNow() invocations, oldest first
    content,        \* the loaded local pack and the getContentItem() calls
    faults,         \* number of injected failures so far
    restarts,       \* number of process restarts so far
    advances,       \* number of clock steps so far
    everSet,        \* keys written by set/setWithDuration so far
    lastOp          \* the last cooldown-store call, or the clock step

vars == <<now, cooldowns, sentMessages, guildConfigs, dayOffset, pureCalls,
          configRows, clientGuilds, schedulerTask, cronActive, ticks, delivered,
          interactions, content, faults, restarts, advances, everSet, lastOp>>

schedVars == <<sentMessages, guildConfigs, dayOffset, pureCalls, configRows,
               clientGuilds, schedulerTask, cronActive, ticks, delivered,
               interactions, content, faults, restarts>>

-----------------------------------------------------------------------------
(* Bounds of the model *)

MaxTicks == 2
MaxInFlight == 2
MaxAdvances == 1
MaxFaults == 1
MaxRestarts == 1
MaxStoreAdvances == 4
MaxInteractions == 2
MaxContentCalls == 2

-----------------------------------------------------------------------------
(* Time *)

MsPerSecond == 1000
MsPerMinute == 60 * MsPerSecond
MsPerDay == 24 * 60 * MsPerMinute

\* 09:15:00.000 UTC on the Thursday of the epoch
StartMorning == (9 * 60 + 15) * MsPerMinute
\* 23:59:00.000 UTC on the same day
StartLateEvening == (23 * 60 + 59) * MsPerMinute

DateOf(t) == t \div MsPerDay
MsOfDay(t) == t % MsPerDay
NominalMinute(t) == t \div MsPerMinute

-----------------------------------------------------------------------------
(* Cooldown store: db/cooldownRepo.ts *)

NoRow == [fmt |-> "none"]

\* Date.prototype.toISOString(): "YYYY-MM-DDTHH:MM:SS.sssZ"
ToISOString(t) == [fmt |-> "iso", date |-> DateOf(t), sep |-> "T",
                   tod |-> MsOfDay(t), ms |-> t]

\* SQLite datetime('now'): "YYYY-MM-DD HH:MM:SS", whole seconds
SqlDatetimeNow(t) == [fmt |-> "sql", date |-> DateOf(t), sep |-> " ",
                      tod |-> (MsOfDay(t) \div MsPerSecond) * MsPerSecond,
                      ms |-> (t \div MsPerSecond) * MsPerSecond]

\* code point of the character at index 10 of the two formats
CharCode(c) == IF c = "T" THEN 84 ELSE 32

\* a > b for two TEXT values under BINARY collation
TextGreater(a, b) ==
    \/ a.date > b.date
    \/ a.date = b.date /\ CharCode(a.sep) > CharCode(b.sep)
    \/ a.date = b.date /\ a.sep = b.sep /\ a.tod > b.tod

\* new Date(row.expires_at).getTime()
ParseDate(row) == row.ms

\* CooldownRepository.set: INSERT ... ON CONFLICT(key) DO UPDATE
CooldownSetWrongKey(cd, key, expiresAt) ==
    [k \in DOMAIN cd |-> ToISOString(expiresAt)]

CooldownSet(cd, key, expiresAt) ==
    [cd EXCEPT ![key] = ToISOString(expiresAt)]

\* the row selected by WHERE key = ? AND expires_at > datetime('now')
CooldownGet(cd, key, t) ==
    IF cd[key] # NoRow /\ TextGreater(cd[key], SqlDatetimeNow(t))
    THEN cd[key]
    ELSE NoRow

IsOnCooldown(cd, key, t) == CooldownGet(cd, key, t) # NoRow

Max(a, b) == IF a >= b THEN a ELSE b

\* CooldownRepository.getRemainingMs without the clamp at 0
GetRemainingMsUnclamped(cd, key, t) ==
    IF CooldownGet(cd, key, t) = NoRow
    THEN 0
    ELSE ParseDate(CooldownGet(cd, key, t)) - t

\* CooldownRepository.getRemainingMs
GetRemainingMs(cd, key, t) ==
    IF CooldownGet(cd, key, t) = NoRow
    THEN 0
    ELSE Max(0, ParseDate(CooldownGet(cd, key, t)) - t)

\* CooldownRepository.setWithDuration
CooldownSetWithDuration(cd, key, durationSeconds, t) ==
    CooldownSet(cd, key, t + durationSeconds * MsPerSecond)

\* CooldownRepository.delete: DELETE FROM cooldowns WHERE key = ?
CooldownDelete(cd, key) == [cd EXCEPT ![key] = NoRow]

\* CooldownRepository.cleanup: DELETE ... WHERE expires_at <= datetime('now')
CleanupRemoved(cd, t) ==
    {k \in DOMAIN cd : cd[k] # NoRow /\ ~TextGreater(cd[k], SqlDatetimeNow(t))}

CooldownCleanup(cd, t) ==
    [k \in DOMAIN cd |-> IF k \in CleanupRemoved(cd, t) THEN NoRow ELSE cd[k]]

-----------------------------------------------------------------------------
(* Content safety filters: content/filters.ts *)

MAX_LENGTH == 600
MAX_EMOJIS == 2

\* A text is the record of what the filters look at: its length, whether it
\* is empty after trim(), whether it contains a banned word, and the number
\* of emoji countEmojis() finds in it.
Texts ==
    {t \in [length : {0, 40, MAX_LENGTH, MAX_LENGTH + 1}, blank : BOOLEAN,
            banned : BOOLEAN, emojis : {0, MAX_EMOJIS, MAX_EMOJIS + 1}] :
        /\ t.length = 0 => t.blank
        /\ t.blank => ~t.banned /\ t.emojis = 0}

CheckLength(text) ==
    IF text.length > MAX_LENGTH THEN "tooLong"
    ELSE IF text.blank THEN "empty"
    ELSE "passed"

CheckBannedWords(text) == IF text.banned THEN "bannedWord" ELSE "passed"

CheckEmojiCount(text) == IF text.emojis > MAX_EMOJIS THEN "tooManyEmojis" ELSE "passed"

\* an applyFilters that checks the banned terms before the length
ApplyFiltersBannedFirst(item) ==
    IF CheckBannedWords(item.text) # "passed" THEN CheckBannedWords(item.text)
    ELSE IF CheckLength(item.text) # "passed" THEN CheckLength(item.text)
    ELSE CheckEmojiCount(item.text)

\* applyFilters(item): the reason of the first check that fails, or "passed"
ApplyFilters(item) ==
    IF CheckLength(item.text) # "passed" THEN CheckLength(item.text)
    ELSE IF CheckBannedWords(item.text) # "passed" THEN CheckBannedWords(item.text)
    ELSE CheckEmojiCount(item.text)

-----------------------------------------------------------------------------
(* Content selection chain: content/quoteApiProvider.ts,                    *)
(* content/localPackProvider.ts, content/provider.ts                        *)

MAX_RETRIES == 2
RETRY_DELAY_MS == 1000
ANTI_REPETITION_DAYS == 30
MAX_RETRY_ATTEMPTS == 10

TextPlain == [length |-> 40, blank |-> FALSE, banned |-> FALSE, emojis |-> 0]
TextAtLimits == [length |-> MAX_LENGTH, blank |-> FALSE, banned |-> FALSE,
                 emojis |-> MAX_EMOJIS]
TextBanned == [TextPlain EXCEPT !.banned = TRUE]
TextTooLong == [TextPlain EXCEPT !.length = MAX_LENGTH + 1]
TextEmpty == [length |-> 0, blank |-> TRUE, banned |-> FALSE, emojis |-> 0]

\* the messages of a happy-pack.json file
PackFiles ==
    {{[id |-> "mot-001", text |-> TextPlain],
      [id |-> "mot-002", text |-> TextAtLimits],
      [id |-> "mot-003", text |-> TextBanned],
      [id |-> "mot-004", text |-> TextTooLong]},
     {[id |-> "mot-003", text |-> TextBanned],
      [id |-> "mot-005", text |-> TextEmpty]},
     {}}

\* a loadPack that keeps every message of the file
LoadPackUnfiltered(rawMessages) ==
    {[id |-> msg.id, text |-> msg.text, provider |-> "local"] : msg \in rawMessages}

\* LocalPackProvider.loadPack: the messages that pass applyFilters
LoadPack(rawMessages) ==
    {item \in {[id |-> msg.id, text |-> msg.text, provider |-> "local"] :
                  msg \in rawMessages} :
        ApplyFilters(item) = "passed"}

\* the ways a fetch of the remote provider fails before a response is mapped
FetchFailures == {"timeout", "transport", "httpStatus"}

\* QuoteApiProvider.mapResponseToItem: the item, or ApiProviderError when the
\* item fails applyFilters
MapResponseToItem(data) ==
    LET item == [id |-> "api-1", text |-> data, provider |-> "api"] IN
    IF ApplyFilters(item) = "passed"
    THEN [item |-> item, error |-> "none"]
    ELSE [item |-> item, error |-> "filter"]

\* a retry loop with one more round
MayAttemptOnceMore(attempt) == attempt <= MAX_RETRIES + 1

\* for (let attempt = 0; attempt <= API.MAX_RETRIES; attempt++)
MayAttempt(attempt) == attempt <= MAX_RETRIES

\* API.RETRY_DELAY_MS * attempt
RetryDelay(attempt) == RETRY_DELAY_MS * attempt

NoItem == [id |-> "none", text |-> TextEmpty, provider |-> "none"]

NoContentCalls == [items |-> LoadPack(CHOOSE f \in PackFiles : Cardinality(f) = 4),
                   calls |-> <<>>]

\* getContentItem(options) up to its first await.
\*   pc          "fetching": a fetch of the remote provider is pending;
\*               "delaying": the delay before the next attempt is pending;
\*               "local":    the local pack is about to be asked;
\*               "done":     the promise of getContentItem has settled
\*   attempt     the loop variable of QuoteApiProvider.getItem
\*   fetches     fetch attempts made so far
\*   waits       the delays awaited so far, in order
\*   lastError   the failure of the last fetch attempt
\*   apiError    QuoteApiProvider.getItem rejected with ApiProviderError
\*   lookups     calls of LocalPackProvider.getItem
\*   result      the item getContentItem resolved with
\*   error       the error getContentItem rejected with
NewContentCall(localOnly, guildId, category) ==
    [localOnly |-> localOnly, guildId |-> guildId, category |-> category,
     pc |-> IF localOnly THEN "local" ELSE "fetching",
     attempt |-> 0, fetches |-> IF localOnly THEN 0 ELSE 1, waits |-> <<>>,
     lastError |-> "none", apiError |-> FALSE, lookups |-> 0,
     draws |-> 0, checked |-> 0, hits |-> 0, lastDrawn |-> "none",
     skipped |-> {},
     result |-> NoItem, error |-> "none"]

\* a catch block that rethrows the failure of the remote provider
RemoteFailureSurfaces(call) ==
    [call EXCEPT !.pc = "done", !.apiError = TRUE, !.error = "ApiProviderError"]

\* catch (error) in getContentItem: fall through to the local pack
RemoteFailureCaught(call) == [call EXCEPT !.pc = "local", !.apiError = TRUE]

\* One fetch attempt of QuoteApiProvider.getItem has failed: the next round
\* of the loop, or the ApiProviderError after the last one.
AfterFailedAttempt(call, failure) ==
    LET next == call.attempt + 1 IN
    IF MayAttempt(next)
    THEN [call EXCEPT !.pc = "delaying", !.attempt = next, !.lastError = failure,
                      !.waits = Append(@, RetryDelay(next))]
    ELSE RemoteFailureCaught([call EXCEPT !.attempt = next, !.lastError = failure])

-----------------------------------------------------------------------------
(* Tenants, slots and keys *)

Guilds == {"g1", "g2"}
ContentIds == {"mot-001"}

T0915 == <<9, 15>>
T1015 == <<10, 15>>
T1630 == <<16, 30>>

\* getSlotCooldownKey: `scheduled:${guildId}:${slot}`
\* a slot key that does not carry the guild of the call
GetSlotCooldownKeyShared(guildId, slot) == <<"scheduled", "g1", slot>>

GetSlotCooldownKey(guildId, slot) == <<"scheduled", guildId, slot>>

\* the /now command key `guild:${guildId}:now`
NowKey(guildId) == <<"guild", guildId, "now">>

\* the contextual-reply key `guild:${message.guildId}:contextual`
ContextualKey(guildId) == <<"guild", guildId, "contextual">>

SlotKeys == {GetSlotCooldownKey(g, s) : g \in Guilds, s \in {T0915, T1015, T1630}}
ApiKeys == {NowKey(g) : g \in Guilds}
ContextualKeys == {ContextualKey(g) : g \in Guilds}
AllKeys == SlotKeys \cup ApiKeys \cup ContextualKeys

\* The text of a key, for the statements that match keys by pattern.  The
\* text is the sequence of its symbols: a fixed word is one symbol, a guild
\* ID is spelled digit by digit.  Guild g1 has the ID "12", guild g2 the ID
\* "123".
GuildIdText(guildId) == IF guildId = "g1" THEN <<"1", "2">> ELSE <<"1", "2", "3">>

KeyText(key) == <<key[1], ":">> \o GuildIdText(key[2]) \o <<":", key[3]>>

\* SQLite `text LIKE pattern`: % matches any run of symbols, _ any one symbol
RECURSIVE SqlLike(_, _)
SqlLike(text, pattern) ==
    IF pattern = <<>> THEN text = <<>>
    ELSE IF Head(pattern) = "%"
    THEN \/ SqlLike(text, Tail(pattern))
         \/ text # <<>> /\ SqlLike(Tail(text), pattern)
    ELSE /\ text # <<>>
         /\ Head(pattern) = "_" \/ Head(pattern) = Head(text)
         /\ SqlLike(Tail(text), Tail(pattern))

\* 'guild:' || ? || '%', a pattern that does not close the ID with a colon
GuildPatternOpen(guildIdText) == <<"guild", ":">> \o guildIdText \o <<"%">>

\* 'guild:' || ? || ':%'
GuildPattern(guildIdText) == <<"guild", ":">> \o guildIdText \o <<":", "%">>

\* CooldownRepository.deleteForGuild: the rows the DELETE statement matches
DeleteForGuildRemoved(cd, guildIdText) ==
    {k \in DOMAIN cd :
        cd[k] # NoRow /\ SqlLike(KeyText(k), GuildPattern(guildIdText))}

\* CooldownRepository.deleteForGuild
CooldownDeleteForGuild(cd, guildIdText) ==
    [k \in DOMAIN cd |->
        IF k \in DeleteForGuildRemoved(cd, guildIdText) THEN NoRow ELSE cd[k]]

SLOT_LOCK_SECONDS == 90
NOW_COMMAND == 60
CronIntervalSeconds == 60

-----------------------------------------------------------------------------
(* Tenant configurations the model starts from *)

ConfigDefault(g) ==
    [guildId |-> g, channelId |-> "chan", timezone |-> "UTC", cadence |-> 2,
     activeDays |-> {1, 2, 3, 4, 5}, scheduleTimes |-> <<T0915, T1630>>]

ConfigParis(g) ==
    [ConfigDefault(g) EXCEPT !.timezone = "Europe/Paris",
                             !.scheduleTimes = <<T1015, T1630>>]

ConfigWeekend(g) ==
    [ConfigDefault(g) EXCEPT !.timezone = "Not/AZone", !.activeDays = {6, 7}]

ConfigNoChannel(g) == [ConfigDefault(g) EXCEPT !.channelId = ""]

\* a slot entered twice, and a cadence that is not the number of slots
ConfigDuplicateSlot(g) ==
    [ConfigDefault(g) EXCEPT !.scheduleTimes = <<T0915, T0915>>]

ConfigCadenceMismatch(g) == [ConfigDefault(g) EXCEPT !.cadence = 3]

World(c1, c2, cache) ==
    [configs |-> [g \in Guilds |-> IF g = "g1" THEN c1 ELSE c2], cache |-> cache]

InitialWorlds ==
    {World(ConfigDefault("g1"), ConfigParis("g2"), Guilds),
     World(ConfigDefault("g1"), ConfigWeekend("g2"), Guilds),
     World(ConfigNoChannel("g1"), ConfigParis("g2"), {"g1"})}

-----------------------------------------------------------------------------
(* Time resolver: scheduler/scheduler.ts *)

ValidTimezones == {"UTC", "Europe/Paris"}

\* offset of the zone from UTC (winter time)
TzOffsetMs(tz) == IF tz = "Europe/Paris" THEN 60 * MsPerMinute ELSE 0

\* Intl.DateTimeFormat throws RangeError for an unknown zone; the catch
\* branch computes from the UTC fields
LocalMs(tz, t) == IF tz \in ValidTimezones THEN t + TzOffsetMs(tz) ELSE t

\* The hour part of formatToParts with hour12: false: "00".."23", or, in a
\* runtime whose hour cycle for it is h24, "24" for the first hour of the day
HourCycles == {"h23", "h24"}
FormatHour(hour, hourCycle) == IF hourCycle = "h24" /\ hour = 0 THEN 24 ELSE hour

\* a resolver that keeps the hour part as it is formatted
NormalizeHourKept(hour) == hour

\* const normalizedHour = hour === '24' ? '00' : hour
NormalizeHour(hour) == IF hour = 24 THEN 0 ELSE hour

\* getCurrentTimeInTimezone in a runtime with the given hour cycle
GetCurrentTimeInTimezoneWith(tz, t, hourCycle) ==
    LET hour == MsOfDay(LocalMs(tz, t)) \div (60 * MsPerMinute)
        minute == (MsOfDay(LocalMs(tz, t)) \div MsPerMinute) % 60
    IN  IF tz \in ValidTimezones
        THEN <<NormalizeHour(FormatHour(hour, hourCycle)), minute>>
        ELSE <<hour, minute>>

GetCurrentTimeInTimezone(tz, t) == GetCurrentTimeInTimezoneWith(tz, t, "h23")

\* the weekday part of formatToParts with weekday: 'short': the English
\* abbreviation, or a value the weekdayMap has no key for
WeekdayParts == {"short", "other"}
WeekdayShort(isoDay, part) ==
    IF part = "other" THEN "?"
    ELSE <<"Mon", "Tue", "Wed", "Thu", "Fri", "Sat", "Sun">>[isoDay]

\* weekdayMap[weekdayStr] ?? 1
WeekdayMapGet(weekdayStr) ==
    IF weekdayStr = "Mon" THEN 1 ELSE IF weekdayStr = "Tue" THEN 2
    ELSE IF weekdayStr = "Wed" THEN 3 ELSE IF weekdayStr = "Thu" THEN 4
    ELSE IF weekdayStr = "Fri" THEN 5 ELSE IF weekdayStr = "Sat" THEN 6
    ELSE IF weekdayStr = "Sun" THEN 7 ELSE 1

\* new Date().getUTCDay(): 0 = Sunday; day 0 of the epoch is a Thursday
GetUTCDay(t) == (DateOf(t) + 4) % 7

\* getCurrentDayOfWeek in a runtime with the given weekday part
GetCurrentDayOfWeekWith(tz, t, part) ==
    IF tz \in ValidTimezones
    THEN WeekdayMapGet(WeekdayShort(((DateOf(LocalMs(tz, t)) + 3) % 7) + 1, part))
    ELSE IF GetUTCDay(t) = 0 THEN 7 ELSE GetUTCDay(t)

\* day 0 of the epoch is a Thursday (ISO 4)
GetCurrentDayOfWeek(tz, t) == GetCurrentDayOfWeekWith(tz, t, "short")

\* jobs.ts isDayActive, isSlotScheduled
IsDayActiveAlways(config, dayOfWeek) == TRUE

IsDayActive(config, dayOfWeek) == dayOfWeek \in config.activeDays

IsSlotScheduled(config, slot) ==
    \E n \in DOMAIN config.scheduleTimes : config.scheduleTimes[n] = slot

-----------------------------------------------------------------------------
(* Scheduled delivery: scheduler/jobs.ts, scheduler/scheduler.ts *)

\* A tenant task of one tick (one element of configs.map(async ...)).
\*   pc           "fetching": awaiting getFormattedContent
\*                "sending":  awaiting channel.send, message not yet posted
\*                "posted":   message posted, the send promise not yet resolved
\*                "settled":  the task's promise has settled
\*   calls        the slots sendScheduledMessage was called for, in order
\*   error        "task": an error reached the catch block of the task;
\*                "call": an error reached the catch block of
\*                sendScheduledMessage; "none" otherwise
\*   afterReturn  the running call began less than SLOT_LOCK_SECONDS after
\*                an earlier call for the same slot delivered and returned
\*   nowLocked    the running call began while "guild:<g>:now" was in force
NewTask(currentTime, currentDay) ==
    [pc |-> "settled", idx |-> 0, slot |-> <<>>, item |-> "",
     currentTime |-> currentTime, currentDay |-> currentDay,
     calls |-> <<>>, error |-> "none", afterReturn |-> FALSE,
     nowLocked |-> FALSE]

RecentlyReturned(dl, g, slot, t) ==
    \E d \in dl :
        /\ d.guildId = g
        /\ d.slot = slot
        /\ d.returnedAt >= 0
        /\ t - d.returnedAt < SLOT_LOCK_SECONDS * MsPerSecond

\* The synchronous part of sendScheduledMessage(g, slot), up to its first
\* await: TRUE iff the call goes on to fetch content.
CallProceeds(g, slot, configs, cache, cd, t) ==
    /\ configs[g].channelId # ""
    /\ ~IsOnCooldown(cd, GetSlotCooldownKey(g, slot), t)
    /\ g \in cache

\* The for-loop of the tenant task from position idx on, run until the next
\* await or the end of the loop.
RECURSIVE RunSlots(_, _, _, _, _, _, _, _)
RunSlots(g, task, idx, configs, cache, cd, t, dl) ==
    LET times == configs[g].scheduleTimes IN
    IF idx > Len(times)
    THEN [task EXCEPT !.pc = "settled", !.idx = idx, !.slot = <<>>, !.item = ""]
    ELSE LET slot == times[idx] IN
         IF ~IsSlotScheduled(configs[g], slot) \/ task.currentTime # slot
         THEN RunSlots(g, task, idx + 1, configs, cache, cd, t, dl)
         ELSE LET called == [task EXCEPT !.calls = Append(@, slot)] IN
              IF CallProceeds(g, slot, configs, cache, cd, t)
              THEN [called EXCEPT !.pc = "fetching", !.idx = idx,
                                  !.slot = slot, !.item = "",
                                  !.afterReturn = RecentlyReturned(dl, g, slot, t),
                                  !.nowLocked = IsOnCooldown(cd, NowKey(g), t)]
              ELSE RunSlots(g, called, idx + 1, configs, cache, cd, t, dl)

\* The tenant task from its start to its first await.
StartTask(g, configs, cache, cd, t, dl, throws) ==
    LET tz == configs[g].timezone
        task == NewTask(GetCurrentTimeInTimezone(tz, t), GetCurrentDayOfWeek(tz, t))
    IN  IF throws THEN [task EXCEPT !.error = "task"]
        ELSE IF ~IsDayActive(configs[g], task.currentDay) THEN task
        ELSE RunSlots(g, task, 1, configs, cache, cd, t, dl)

\* configs.map(async (config) => ...): every task is started in turn
DispatchTasks(configs, cache, cd, t, dl, F) ==
    [g \in Guilds |-> StartTask(g, configs, cache, cd, t, dl, g \in F)]

\* Promise.allSettled(tasks)
AnySettled(tasks) == \E g \in DOMAIN tasks : tasks[g].pc = "settled"

AllSettled(tasks) == \A g \in DOMAIN tasks : tasks[g].pc = "settled"

\* an error thrown inside a tenant task is caught inside that task
TickStatusRejecting(tasks) ==
    IF \E g \in DOMAIN tasks : tasks[g].error = "task" THEN "rejected" ELSE "resolved"

TickStatusAfterJoin(tasks) == "resolved"

IsSchedulerRunning == schedulerTask # "null"

\* startScheduler: [schedulerTask, number of started cron tasks] afterwards
StartSchedulerAlways(task, active) == <<"task", active + 1>>

StartSchedulerResult(task, active) ==
    IF task # "null" THEN <<task, active>> ELSE <<"task", active + 1>>

\* stopScheduler
StopSchedulerResult(task, active) ==
    IF task = "null" THEN <<task, active>> ELSE <<"null", active - 1>>

\* schedulerTask.stop() acts on the cron task only
TicksAfterStopCancelling(tk) ==
    [i \in DOMAIN tk |->
        IF tk[i].status = "running" THEN [tk[i] EXCEPT !.status = "killed"]
        ELSE tk[i]]

TicksAfterStop(tk) == tk

SchedOp(name, ret) == [op |-> name, key |-> <<>>, arg |-> 0, ret |-> ret]

-----------------------------------------------------------------------------
(* Actions *)

Init ==
    /\ now = StartMorning
    /\ cooldowns = [k \in AllKeys |-> NoRow]
    /\ sentMessages = [g \in Guilds |-> <<>>]
    /\ \E w \in InitialWorlds :
        /\ guildConfigs = w.configs
        /\ clientGuilds = w.cache
    /\ dayOffset = 0
    /\ pureCalls = <<>>
    /\ configRows = {}
    /\ schedulerTask = "null"
    /\ cronActive = 0
    /\ ticks = <<>>
    /\ delivered = {}
    /\ interactions = <<>>
    /\ content = NoContentCalls
    /\ faults = 0
    /\ restarts = 0
    /\ advances = 0
    /\ everSet = {}
    /\ lastOp = SchedOp("init", 0)

StartScheduler ==
    LET r == StartSchedulerResult(schedulerTask, cronActive) IN
    /\ schedulerTask' = r[1]
    /\ cronActive' = r[2]
    /\ lastOp' = SchedOp("startScheduler", IF schedulerTask = "null" THEN 1 ELSE 0)
    /\ UNCHANGED <<now, cooldowns, sentMessages, guildConfigs, dayOffset, pureCalls, configRows, content, interactions, clientGuilds,
                   ticks, delivered, faults, restarts, advances, everSet>>

StopScheduler ==
    LET r == StopSchedulerResult(schedulerTask, cronActive) IN
    /\ schedulerTask' = r[1]
    /\ cronActive' = r[2]
    /\ ticks' = TicksAfterStop(ticks)
    /\ lastOp' = SchedOp("stopScheduler", IF schedulerTask = "null" THEN 0 ELSE 1)
    /\ UNCHANGED <<now, cooldowns, sentMessages, guildConfigs, dayOffset, pureCalls, configRows, content, interactions, clientGuilds,
                   delivered, faults, restarts, advances, everSet>>

\* the tenant tasks that wait on an external call
UnsettledIn(tasks) == {g \in DOMAIN tasks : tasks[g].pc # "settled"}

Unsettled ==
    {<<i, g>> \in (DOMAIN ticks) \X Guilds :
        ticks[i].status = "running" /\ ticks[i].tasks[g].pc # "settled"}

\* A started cron task fires and calls processGuilds(), which runs to the
\* await of Promise.allSettled.  F: the tenants whose task throws before its
\* first await.
ProcessGuilds ==
    /\ cronActive > 0
    /\ Len(ticks) < MaxTicks
    /\ \E F \in SUBSET Guilds :
        LET tasks == DispatchTasks(guildConfigs, clientGuilds, cooldowns,
                                  now, delivered, F)
        IN  /\ Cardinality(F) <= MaxFaults - faults
            /\ Cardinality(Unsettled) + Cardinality(UnsettledIn(tasks)) <= MaxInFlight
            /\ faults' = faults + Cardinality(F)
            /\ ticks' = Append(ticks,
                  [status |-> "running", startedAt |-> now, tasks |-> tasks])
    /\ UNCHANGED <<now, cooldowns, sentMessages, guildConfigs, dayOffset, pureCalls, configRows, content, interactions, clientGuilds,
                   schedulerTask, cronActive, delivered, restarts, advances,
                   everSet, lastOp>>

InFlight(i, g, pc) ==
    /\ i \in DOMAIN ticks
    /\ ticks[i].status = "running"
    /\ ticks[i].tasks[g].pc = pc

\* a catch block that throws the error on: the tenant task ends with it
ContinueRethrowing(i, g, cd, dl, failed) ==
    IF failed
    THEN [ticks[i].tasks[g] EXCEPT !.pc = "settled", !.error = "task",
                                   !.slot = <<>>, !.item = ""]
    ELSE RunSlots(g, ticks[i].tasks[g], ticks[i].tasks[g].idx + 1,
                  guildConfigs, clientGuilds, cd, now, dl)

\* the loop goes on after sendScheduledMessage returned; failed: the call
\* ended in its catch block
Continue(i, g, cd, dl, failed) ==
    RunSlots(g, [ticks[i].tasks[g] EXCEPT !.error = IF failed THEN "call" ELSE @],
             ticks[i].tasks[g].idx + 1, guildConfigs, clientGuilds, cd, now, dl)

\* getFormattedContent resolves: the item is recorded with channelId '' and
\* channel.send is started; storeFails: sentRepo.record throws
FetchSucceeds(i, g) ==
    /\ InFlight(i, g, "fetching")
    /\ \E item \in ContentIds, storeFails \in BOOLEAN :
        /\ storeFails => faults < MaxFaults
        /\ faults' = IF storeFails THEN faults + 1 ELSE faults
        /\ IF storeFails
           THEN /\ ticks' = [ticks EXCEPT ![i].tasks[g] =
                                  Continue(i, g, cooldowns, delivered, TRUE)]
                /\ UNCHANGED sentMessages
           ELSE /\ ticks' = [ticks EXCEPT ![i].tasks[g].pc = "sending",
                                          ![i].tasks[g].item = item]
                /\ sentMessages' = [sentMessages EXCEPT ![g] = Append(@,
                      [guildId |-> g, channelId |-> "", contentId |-> item])]
    /\ UNCHANGED <<now, cooldowns, guildConfigs, dayOffset, pureCalls, configRows, content, interactions, clientGuilds, schedulerTask,
                   cronActive, delivered, restarts, advances, everSet, lastOp>>

\* getContentItem rejects (ContentNotFoundError): caught in sendScheduledMessage
FetchFails(i, g) ==
    /\ InFlight(i, g, "fetching")
    /\ faults < MaxFaults
    /\ faults' = faults + 1
    /\ ticks' = [ticks EXCEPT ![i].tasks[g] = Continue(i, g, cooldowns, delivered, TRUE)]
    /\ UNCHANGED <<now, cooldowns, sentMessages, guildConfigs, dayOffset, pureCalls, configRows, content, interactions, clientGuilds,
                   schedulerTask, cronActive, delivered, restarts, advances,
                   everSet, lastOp>>

\* the chat platform posts the message to the channel
ChannelPosts(i, g) ==
    /\ InFlight(i, g, "sending")
    /\ ticks' = [ticks EXCEPT ![i].tasks[g].pc = "posted"]
    /\ delivered' = delivered \cup
          {[guildId |-> g, slot |-> ticks[i].tasks[g].slot,
            minute |-> NominalMinute(now),
            tick |-> i, idx |-> ticks[i].tasks[g].idx, epoch |-> restarts,
            item |-> ticks[i].tasks[g].item,
            afterReturn |-> ticks[i].tasks[g].afterReturn,
            nowLocked |-> ticks[i].tasks[g].nowLocked,
            schedulerStopped |-> ~IsSchedulerRunning,
            returnedAt |-> -1, locked |-> FALSE]}
    /\ UNCHANGED <<now, cooldowns, sentMessages, guildConfigs, dayOffset, pureCalls, configRows, content, interactions, clientGuilds,
                   schedulerTask, cronActive, faults, restarts, advances,
                   everSet, lastOp>>

\* channel.send rejects: caught in sendScheduledMessage
SendFails(i, g) ==
    /\ InFlight(i, g, "sending")
    /\ faults < MaxFaults
    /\ faults' = faults + 1
    /\ ticks' = [ticks EXCEPT ![i].tasks[g] = Continue(i, g, cooldowns, delivered, TRUE)]
    /\ UNCHANGED <<now, cooldowns, sentMessages, guildConfigs, dayOffset, pureCalls, configRows, content, interactions, clientGuilds,
                   schedulerTask, cronActive, delivered, restarts, advances,
                   everSet, lastOp>>

\* the entry of `delivered` the task (i, g) is waiting on
PostedEntry(i, g) ==
    CHOOSE d \in delivered :
        /\ d.tick = i
        /\ d.guildId = g
        /\ d.idx = ticks[i].tasks[g].idx

\* channel.send resolves: recordSentContent, then setWithDuration, then the
\* call returns.  failAt: 0 nothing throws, 1 recordSentContent throws,
\* 2 setWithDuration throws.
SendResolves(i, g) ==
    /\ InFlight(i, g, "posted")
    /\ \E failAt \in 0..2 :
        LET key == GetSlotCooldownKey(g, ticks[i].tasks[g].slot)
            cd == IF failAt = 0
                  THEN CooldownSetWithDuration(cooldowns, key, SLOT_LOCK_SECONDS, now)
                  ELSE cooldowns
            dl == (delivered \ {PostedEntry(i, g)}) \cup
                  {[PostedEntry(i, g) EXCEPT !.returnedAt = now,
                                             !.locked = (failAt = 0)]}
        IN  /\ failAt > 0 => faults < MaxFaults
            /\ faults' = IF failAt > 0 THEN faults + 1 ELSE faults
            /\ sentMessages' =
                  IF failAt = 1 THEN sentMessages
                  ELSE [sentMessages EXCEPT ![g] = Append(@,
                         [guildId |-> g, channelId |-> guildConfigs[g].channelId,
                          contentId |-> ticks[i].tasks[g].item])]
            /\ cooldowns' = cd
            /\ delivered' = dl
            /\ ticks' = [ticks EXCEPT ![i].tasks[g] = Continue(i, g, cd, dl, failAt > 0)]
    /\ UNCHANGED <<now, guildConfigs, dayOffset, pureCalls, configRows, content, interactions, clientGuilds, schedulerTask, cronActive,
                   restarts, advances, everSet, lastOp>>

\* the await of Promise.allSettled resumes and processGuilds returns
ProcessGuildsReturns(i) ==
    /\ i \in DOMAIN ticks
    /\ ticks[i].status = "running"
    /\ AllSettled(ticks[i].tasks)
    /\ ticks' = [ticks EXCEPT ![i].status = TickStatusAfterJoin(ticks[i].tasks)]
    /\ UNCHANGED <<now, cooldowns, sentMessages, guildConfigs, dayOffset, pureCalls, configRows, content, interactions, clientGuilds,
                   schedulerTask, cronActive, delivered, faults, restarts,
                   advances, everSet, lastOp>>

\* The process dies and is started again: module state and pending promises
\* are gone, the database and the posted messages stay.
Restart ==
    /\ restarts < MaxRestarts
    /\ restarts' = restarts + 1
    /\ schedulerTask' = "null"
    /\ cronActive' = 0
    /\ ticks' = [i \in DOMAIN ticks |->
                    IF ticks[i].status = "running"
                    THEN [ticks[i] EXCEPT !.status = "killed"]
                    ELSE ticks[i]]
    /\ UNCHANGED <<now, cooldowns, sentMessages, guildConfigs, dayOffset, pureCalls, configRows, content, interactions, clientGuilds,
                   delivered, faults, advances, everSet, lastOp>>

ClockSteps == {CronIntervalSeconds * MsPerSecond}

\* wall-clock time passes
Advance ==
    /\ advances < MaxAdvances
    /\ advances' = advances + 1
    /\ \E d \in ClockSteps : now' = now + d
    /\ UNCHANGED <<cooldowns, sentMessages, guildConfigs, dayOffset, pureCalls, configRows, content, interactions, clientGuilds,
                   schedulerTask, cronActive, ticks, delivered, faults,
                   restarts, everSet, lastOp>>

TaskStep ==
    \E i \in 1..MaxTicks, g \in Guilds :
        \/ FetchSucceeds(i, g)
        \/ FetchFails(i, g)
        \/ ChannelPosts(i, g)
        \/ SendFails(i, g)
        \/ SendResolves(i, g)

Join == \E i \in 1..MaxTicks : ProcessGuildsReturns(i)

Next ==
    \/ StartScheduler
    \/ StopScheduler
    \/ ProcessGuilds
    \/ TaskStep
    \/ Join
    \/ Restart
    \/ Advance

Spec == Init /\ [][Next]_vars

-----------------------------------------------------------------------------
(* The scheduler over configurations whose slot list the configuration     *)
(* surface did not keep consistent                                          *)

InconsistentWorlds ==
    {World(ConfigDuplicateSlot("g1"), ConfigCadenceMismatch("g2"), Guilds)}

InitInconsistent ==
    /\ now = StartMorning
    /\ cooldowns = [k \in AllKeys |-> NoRow]
    /\ sentMessages = [g \in Guilds |-> <<>>]
    /\ \E w \in InconsistentWorlds :
        /\ guildConfigs = w.configs
        /\ clientGuilds = w.cache
    /\ dayOffset = 0
    /\ pureCalls = <<>>
    /\ configRows = {}
    /\ schedulerTask = "null"
    /\ cronActive = 0
    /\ ticks = <<>>
    /\ delivered = {}
    /\ interactions = <<>>
    /\ content = NoContentCalls
    /\ faults = 0
    /\ restarts = 0
    /\ advances = 0
    /\ everSet = {}
    /\ lastOp = SchedOp("init", 0)

SpecInconsistent == InitInconsistent /\ [][Next]_vars

-----------------------------------------------------------------------------
(* The system without process restarts, under the fairness the event loop  *)
(* and the claim's premise (every external call settles) give: a pending    *)
(* external call settles, and the resumed await of allSettled runs.         *)

Settle(i, g) ==
    \/ FetchSucceeds(i, g)
    \/ FetchFails(i, g)
    \/ ChannelPosts(i, g)
    \/ SendFails(i, g)
    \/ SendResolves(i, g)

NextLive ==
    \/ StartScheduler
    \/ StopScheduler
    \/ ProcessGuilds
    \/ TaskStep
    \/ Join
    \/ Advance

LiveSpec ==
    /\ Init
    /\ [][NextLive]_vars
    /\ \A i \in 1..MaxTicks :
        /\ WF_vars(ProcessGuildsReturns(i))
        /\ \A g \in Guilds : WF_vars(Settle(i, g))

-----------------------------------------------------------------------------
(* The on-demand command: commands/happyNow.ts *)

\* a cooldown key taken from the key space of the slot locks
NowKeyShared(guildId) == GetSlotCooldownKey(guildId, T0915)

\* const cooldownKey = `guild:${guildId}:now`
NowCooldownKey(guildId) == NowKey(guildId)

\* if (remainingMs > 0): the command only answers with the remaining wait
NeverRateLimited(remainingMs) == FALSE

IsRateLimited(remainingMs) == remainingMs > 0

\* a catch block that would write the cooldown
NowCatchSetsCooldown(cd, guildId, t) ==
    CooldownSetWithDuration(cd, NowCooldownKey(guildId), NOW_COMMAND, t)

\* catch (error): console.error and editReply, no store call
NowCatch(cd, guildId, t) == cd

\* getGuildChannel(guildId, config.channelId) when config?.channelId is set
TargetChannel(guildId) ==
    IF guildConfigs[guildId].channelId # "" /\ guildId \in clientGuilds
    THEN "channel"
    ELSE "interaction"

\* some slot lock of the guild is in force
SlotLocked(cd, guildId, t) ==
    \E k \in SlotKeys : k[2] = guildId /\ IsOnCooldown(cd, k, t)

NewInteraction(guildId, remainingMs, slotLocked) ==
    [guildId |-> guildId, remainingMs |-> remainingMs, slotLocked |-> slotLocked,
     pc |-> IF IsRateLimited(remainingMs) THEN "replying" ELSE "deferring",
     item |-> "none", target |-> "none", deliveredAt |-> -1,
     failedAt |-> "none", outcome |-> "pending"]

\* the interaction is suspended at the given await
NowAt(i, pc) == i \in DOMAIN interactions /\ interactions[i].pc = pc

\* an awaited call of interaction i rejects inside the try block
NowCaught(i, at) ==
    /\ interactions' = [interactions EXCEPT ![i].pc = "reporting", ![i].failedAt = at]
    /\ cooldowns' = NowCatch(cooldowns, interactions[i].guildId, now)

\* executeHappyNow(interaction) up to its first await
HappyNowInvoke(g) ==
    /\ Len(interactions) < MaxInteractions
    /\ interactions' = Append(interactions,
            NewInteraction(g, GetRemainingMs(cooldowns, NowCooldownKey(g), now),
                           SlotLocked(cooldowns, g, now)))
    /\ UNCHANGED <<now, cooldowns, sentMessages, guildConfigs, dayOffset, pureCalls, configRows, content, clientGuilds,
                   schedulerTask, cronActive, ticks, delivered, faults, restarts,
                   advances, everSet, lastOp>>

\* await replyEphemeral(...) of the rate-limited branch settles
NowReplyResolves(i) ==
    /\ NowAt(i, "replying")
    /\ \E ok \in BOOLEAN :
        /\ ~ok => faults < MaxFaults
        /\ faults' = IF ok THEN faults ELSE faults + 1
        /\ interactions' = [interactions EXCEPT
              ![i].pc = "done",
              ![i].failedAt = IF ok THEN "none" ELSE "reply",
              ![i].outcome = IF ok THEN "rateLimited" ELSE "thrown"]
    /\ UNCHANGED <<now, cooldowns, sentMessages, guildConfigs, dayOffset, pureCalls, configRows, content, clientGuilds,
                   schedulerTask, cronActive, ticks, delivered, restarts,
                   advances, everSet, lastOp>>

\* await interaction.deferReply(...) settles; it is outside the try block
NowDeferResolves(i) ==
    /\ NowAt(i, "deferring")
    /\ \E ok \in BOOLEAN :
        /\ ~ok => faults < MaxFaults
        /\ faults' = IF ok THEN faults ELSE faults + 1
        /\ interactions' = [interactions EXCEPT
              ![i].pc = IF ok THEN "fetching" ELSE "done",
              ![i].failedAt = IF ok THEN "none" ELSE "defer",
              ![i].outcome = IF ok THEN "pending" ELSE "thrown"]
    /\ UNCHANGED <<now, cooldowns, sentMessages, guildConfigs, dayOffset, pureCalls, configRows, content, clientGuilds,
                   schedulerTask, cronActive, ticks, delivered, restarts,
                   advances, everSet, lastOp>>

\* recordSentContent(guildId, channelId, item)
RecordSentContent(sm, guildId, channelId, item) ==
    [sm EXCEPT ![guildId] = Append(@,
        [guildId |-> guildId, channelId |-> channelId, contentId |-> item])]

\* await getFormattedContent(...) settles: on success the history row with
\* the empty channelId is written and the target channel is determined
NowFetchResolves(i) ==
    /\ NowAt(i, "fetching")
    /\ \E item \in ContentIds, result \in {"ok", "noContent", "storeError"} :
        LET g == interactions[i].guildId IN
        /\ result # "ok" => faults < MaxFaults
        /\ faults' = IF result = "ok" THEN faults ELSE faults + 1
        /\ IF result = "ok"
           THEN /\ sentMessages' = RecordSentContent(sentMessages, g, "", item)
                /\ interactions' = [interactions EXCEPT
                      ![i].item = item,
                      ![i].target = TargetChannel(g),
                      ![i].pc = IF TargetChannel(g) = "channel"
                                THEN "sending" ELSE "editing"]
                /\ UNCHANGED cooldowns
           ELSE /\ NowCaught(i, "fetch")
                /\ UNCHANGED sentMessages
    /\ UNCHANGED <<now, guildConfigs, dayOffset, pureCalls, configRows, content, clientGuilds, schedulerTask, cronActive,
                   ticks, delivered, restarts, advances, everSet, lastOp>>

\* await targetChannel.send(result.message) settles; on success the history
\* row of the channel is written
NowSendResolves(i) ==
    /\ NowAt(i, "sending")
    /\ \E result \in {"ok", "sendError", "storeError"} :
        LET g == interactions[i].guildId IN
        /\ result # "ok" => faults < MaxFaults
        /\ faults' = IF result = "ok" THEN faults ELSE faults + 1
        /\ CASE result = "ok" ->
                /\ sentMessages' = RecordSentContent(sentMessages, g,
                        guildConfigs[g].channelId, interactions[i].item)
                /\ interactions' = [interactions EXCEPT
                      ![i].deliveredAt = now, ![i].pc = "confirming"]
                /\ UNCHANGED cooldowns
             [] result = "sendError" ->
                /\ NowCaught(i, "send")
                /\ UNCHANGED sentMessages
             [] result = "storeError" ->
                /\ interactions' = [interactions EXCEPT
                      ![i].deliveredAt = now, ![i].pc = "reporting",
                      ![i].failedAt = "record"]
                /\ cooldowns' = NowCatch(cooldowns, g, now)
                /\ UNCHANGED sentMessages
    /\ UNCHANGED <<now, guildConfigs, dayOffset, pureCalls, configRows, content, clientGuilds, schedulerTask, cronActive,
                   ticks, delivered, restarts, advances, everSet, lastOp>>

\* cooldownRepo.setWithDuration(cooldownKey, COOLDOWNS.NOW_COMMAND) and return
NowSetCooldown(i, ok) ==
    LET g == interactions[i].guildId IN
    IF ok
    THEN /\ cooldowns' = CooldownSetWithDuration(cooldowns, NowCooldownKey(g),
                                                  NOW_COMMAND, now)
         /\ everSet' = everSet \cup {NowCooldownKey(g)}
         /\ interactions' = [interactions EXCEPT
               ![i].pc = "done", ![i].outcome = "sent",
               ![i].deliveredAt = IF @ = -1 THEN now ELSE @]
    ELSE /\ cooldowns' = NowCatch(cooldowns, g, now)
         /\ UNCHANGED everSet
         /\ interactions' = [interactions EXCEPT
               ![i].pc = "reporting", ![i].failedAt = "lock",
               ![i].deliveredAt = IF @ = -1 THEN now ELSE @]

\* await interaction.editReply('... canal configure') settles; on success the
\* cooldown is set
NowConfirmResolves(i) ==
    /\ NowAt(i, "confirming")
    /\ \E result \in {"ok", "replyError", "storeError"} :
        /\ result # "ok" => faults < MaxFaults
        /\ faults' = IF result = "ok" THEN faults ELSE faults + 1
        /\ IF result = "replyError"
           THEN NowCaught(i, "confirm") /\ UNCHANGED everSet
           ELSE NowSetCooldown(i, result = "ok")
    /\ UNCHANGED <<now, sentMessages, guildConfigs, dayOffset, pureCalls, configRows, content, clientGuilds, schedulerTask,
                   cronActive, ticks, delivered, restarts, advances, lastOp>>

\* await interaction.editReply({ content: '... Voici votre message' }) settles
NowEditResolves(i) ==
    /\ NowAt(i, "editing")
    /\ \E ok \in BOOLEAN :
        /\ ~ok => faults < MaxFaults
        /\ faults' = IF ok THEN faults ELSE faults + 1
        /\ IF ok
           THEN /\ interactions' = [interactions EXCEPT ![i].pc = "following"]
                /\ UNCHANGED cooldowns
           ELSE NowCaught(i, "edit")
    /\ UNCHANGED <<now, sentMessages, guildConfigs, dayOffset, pureCalls, configRows, content, clientGuilds, schedulerTask,
                   cronActive, ticks, delivered, restarts, advances, everSet, lastOp>>

\* await interaction.followUp(...) settles: the message is posted in the
\* channel of the interaction, its history row written and the cooldown set
NowFollowUpResolves(i) ==
    /\ NowAt(i, "following")
    /\ \E result \in {"ok", "sendError", "recordError", "lockError"} :
        LET g == interactions[i].guildId IN
        /\ result # "ok" => faults < MaxFaults
        /\ faults' = IF result = "ok" THEN faults ELSE faults + 1
        /\ CASE result = "sendError" ->
                /\ NowCaught(i, "followUp")
                /\ UNCHANGED <<sentMessages, everSet>>
             [] result = "recordError" ->
                /\ interactions' = [interactions EXCEPT
                      ![i].deliveredAt = now, ![i].pc = "reporting",
                      ![i].failedAt = "record"]
                /\ cooldowns' = NowCatch(cooldowns, g, now)
                /\ UNCHANGED <<sentMessages, everSet>>
             [] OTHER ->
                /\ sentMessages' = RecordSentContent(sentMessages, g,
                        "interactionChannel", interactions[i].item)
                /\ NowSetCooldown(i, result = "ok")
    /\ UNCHANGED <<now, guildConfigs, dayOffset, pureCalls, configRows, content, clientGuilds, schedulerTask, cronActive,
                   ticks, delivered, restarts, advances, lastOp>>

\* await interaction.editReply('... Reessayez plus tard') of the catch block
\* settles; when it rejects, executeHappyNow rejects.  The catch block is
\* entered once per invocation at most, so this failure needs no budget.
NowReportResolves(i) ==
    /\ NowAt(i, "reporting")
    /\ \E ok \in BOOLEAN :
        interactions' = [interactions EXCEPT
            ![i].pc = "done",
            ![i].outcome = IF ok THEN "reported" ELSE "thrown"]
    /\ UNCHANGED <<now, cooldowns, sentMessages, guildConfigs, dayOffset, pureCalls, configRows, content, clientGuilds,
                   schedulerTask, cronActive, ticks, delivered, faults, restarts,
                   advances, everSet, lastOp>>

NowStep ==
    \E i \in 1..MaxInteractions :
        \/ NowReplyResolves(i)
        \/ NowDeferResolves(i)
        \/ NowFetchResolves(i)
        \/ NowSendResolves(i)
        \/ NowConfirmResolves(i)
        \/ NowEditResolves(i)
        \/ NowFollowUpResolves(i)
        \/ NowReportResolves(i)

\* the command interface as time passes
NextNow ==
    \/ \E g \in Guilds : HappyNowInvoke(g)
    \/ NowStep
    \/ Advance

SpecNow == Init /\ [][NextNow]_vars

\* the command interface next to a running scheduler
NextNowAndScheduler ==
    \/ \E g \in Guilds : HappyNowInvoke(g)
    \/ NowStep
    \/ StartScheduler
    \/ ProcessGuilds
    \/ TaskStep
    \/ Join

SpecNowAndScheduler == Init /\ [][NextNowAndScheduler]_vars

-----------------------------------------------------------------------------
(* The content selection chain driven through getContentItem *)

\* the category under which the pack file lists a message
PackCategory(id) == "motivation"

\* the categories a caller asks for; "none" is an omitted category
RequestedCategories == {"none", "motivation", "team"}

\* the guildId argument of getItem; "" is an omitted guildId
GuildIdOptions == {"", "g1"}

\* LocalPackProvider.getCandidates
GetCandidates(items, category) ==
    IF category = "none" THEN items
    ELSE {item \in items : PackCategory(item.id) = category}

\* The instants of the sent history span the retention window, more
\* milliseconds than an integer of the model holds: they are records of the
\* day since the epoch and the millisecond of that day.
Instant(offsetDays, t) == [day |-> offsetDays + DateOf(t), tod |-> MsOfDay(t)]

\* Date.prototype.toISOString() of an instant of the history
InstantToISOString(i) == [fmt |-> "iso", date |-> i.day, sep |-> "T", tod |-> i.tod]

\* a row of sent_messages: sentRepo.record stores sentAt.toISOString()
SentRow(guildId, channelId, contentId, sentAt) ==
    [guildId |-> guildId, channelId |-> channelId, contentId |-> contentId,
     sentAt |-> InstantToISOString(sentAt)]

\* SentMessageRepository.record
SentRepoRecord(sm, guildId, channelId, contentId, sentAt) ==
    [sm EXCEPT ![guildId] = Append(@, SentRow(guildId, channelId, contentId, sentAt))]

\* SQLite datetime('now', '-' || days || ' days'): whole seconds
SqlDatetimeDaysAgo(i, days) ==
    [fmt |-> "sql", date |-> i.day - days, sep |-> " ",
     tod |-> (i.tod \div MsPerSecond) * MsPerSecond]

\* SentMessageRepository.wasSentRecently: a row WHERE guild_id = ? AND
\* content_id = ? AND sent_at > datetime('now', '-' || ? || ' days')
WasSentRecently(sm, guildId, contentId, days, t) ==
    \E n \in DOMAIN sm[guildId] :
        /\ sm[guildId][n].contentId = contentId
        /\ TextGreater(sm[guildId][n].sentAt, SqlDatetimeDaysAgo(t, days))

\* LocalPackProvider.getItem up to its first pickRandom:
\* ContentNotFoundError when the category has no candidate
LocalGetItem(call, items) ==
    IF GetCandidates(items, call.category) = {}
    THEN [call EXCEPT !.pc = "done", !.lookups = @ + 1,
                      !.error = "ContentNotFoundError"]
    ELSE [call EXCEPT !.pc = "drawing", !.lookups = @ + 1]

\* One pickRandom of getItem and what follows it: the return without a
\* guildId, one round of the loop (the lookup in sent_messages throws, finds
\* no recent row and returns the item, or finds one and goes on), or the
\* return after the loop
DrawStep(call, pick, wasSent, lookupFails) ==
    IF call.guildId = "" \/ call.checked >= MAX_RETRY_ATTEMPTS
    THEN [call EXCEPT !.pc = "done", !.draws = @ + 1, !.result = pick]
    ELSE IF lookupFails
    THEN [call EXCEPT !.pc = "done", !.draws = @ + 1, !.lastDrawn = pick.id,
                      !.error = "DatabaseError"]
    ELSE IF ~wasSent
    THEN [call EXCEPT !.pc = "done", !.draws = @ + 1, !.checked = @ + 1,
                      !.lastDrawn = pick.id, !.result = pick]
    ELSE [call EXCEPT !.draws = @ + 1, !.checked = @ + 1, !.hits = @ + 1,
                      !.lastDrawn = pick.id, !.skipped = @ \cup {pick.id}]

\* whether the lookup of the coming round can throw
LookupOutcomes(call, mayFail) ==
    IF mayFail /\ call.guildId # "" /\ call.checked < MAX_RETRY_ATTEMPTS
    THEN {FALSE, TRUE}
    ELSE {FALSE}

\* the ways getItem ends, over every sequence of random draws
RECURSIVE GetItemOutcomes(_, _, _, _, _)
GetItemOutcomes(call, candidates, sm, t, mayFail) ==
    IF call.pc # "drawing"
    THEN {call}
    ELSE UNION {GetItemOutcomes(
                    DrawStep(call, pick,
                             IF call.guildId = "" THEN FALSE
                             ELSE WasSentRecently(sm, call.guildId, pick.id,
                                                  ANTI_REPETITION_DAYS, t),
                             fails),
                    candidates, sm, t, mayFail) :
                pick \in candidates, fails \in LookupOutcomes(call, mayFail)}

\* the ways the call runs on to its next await or to its end
RunToAwait(call, items, sm, t, mayFail) ==
    IF call.pc = "local"
    THEN GetItemOutcomes(LocalGetItem(call, items),
                         GetCandidates(items, call.category), sm, t, mayFail)
    ELSE {call}

\* the sent-history lookups that threw
StoreFaults(call) == IF call.error = "DatabaseError" THEN 1 ELSE 0

ContentAt(c, pc) == c \in DOMAIN content.calls /\ content.calls[c].pc = pc

\* getContentItem({ guildId, category, localOnly })
GetContentItemWith(localOnlyOptions, maxCalls) ==
    /\ Len(content.calls) < maxCalls
    /\ \E localOnly \in localOnlyOptions, guildId \in GuildIdOptions,
          category \in RequestedCategories :
        \E call \in RunToAwait(NewContentCall(localOnly, guildId, category),
                                content.items, sentMessages,
                                Instant(dayOffset, now), faults < MaxFaults) :
            /\ content' = [content EXCEPT !.calls = Append(@, call)]
            /\ faults' = faults + StoreFaults(call)
    /\ UNCHANGED <<now, cooldowns, sentMessages, guildConfigs, dayOffset, pureCalls, configRows, clientGuilds,
                   schedulerTask, cronActive, ticks, delivered, interactions,
                   restarts, advances, everSet, lastOp>>

GetContentItem == GetContentItemWith(BOOLEAN, MaxContentCalls)

\* await this.fetchQuote(category) settles: a failure of the request, or a
\* response that mapResponseToItem accepts or rejects
RemoteFetchSettles(c) ==
    /\ ContentAt(c, "fetching")
    /\ \E outcome \in FetchFailures \cup {"response"}, data \in Texts :
        LET call == content.calls[c]
            mapped == MapResponseToItem(data)
            failure == IF outcome \in FetchFailures THEN outcome ELSE mapped.error
        IN  IF failure = "none"
            THEN /\ content' = [content EXCEPT !.calls[c] =
                        [call EXCEPT !.pc = "done", !.result = mapped.item]]
                 /\ UNCHANGED faults
            ELSE \E next \in RunToAwait(AfterFailedAttempt(call, failure),
                                        content.items, sentMessages,
                                        Instant(dayOffset, now),
                                        faults < MaxFaults) :
                    /\ content' = [content EXCEPT !.calls[c] = next]
                    /\ faults' = faults + StoreFaults(next)
    /\ UNCHANGED <<now, cooldowns, sentMessages, guildConfigs, dayOffset, pureCalls, configRows, clientGuilds,
                   schedulerTask, cronActive, ticks, delivered, interactions,
                   restarts, advances, everSet, lastOp>>

\* await this.delay(API.RETRY_DELAY_MS * attempt) settles and the next fetch
\* is made
RetryDelayElapses(c) ==
    /\ ContentAt(c, "delaying")
    /\ content' = [content EXCEPT !.calls[c].pc = "fetching",
                                  !.calls[c].fetches = @ + 1]
    /\ UNCHANGED <<now, cooldowns, sentMessages, guildConfigs, dayOffset, pureCalls, configRows, clientGuilds,
                   schedulerTask, cronActive, ticks, delivered, interactions,
                   faults, restarts, advances, everSet, lastOp>>

InitContent ==
    /\ now = StartMorning
    /\ cooldowns = [k \in AllKeys |-> NoRow]
    /\ sentMessages = [g \in Guilds |-> <<>>]
    /\ guildConfigs = [g \in Guilds |-> ConfigDefault(g)]
    /\ dayOffset = 0
    /\ pureCalls = <<>>
    /\ configRows = {}
    /\ clientGuilds = Guilds
    /\ schedulerTask = "null"
    /\ cronActive = 0
    /\ ticks = <<>>
    /\ delivered = {}
    /\ interactions = <<>>
    /\ \E f \in PackFiles : content = [items |-> LoadPack(f), calls |-> <<>>]
    /\ faults = 0
    /\ restarts = 0
    /\ advances = 0
    /\ everSet = {}
    /\ lastOp = SchedOp("init", 0)

NextContent ==
    \/ GetContentItem
    \/ \E c \in 1..MaxContentCalls : RemoteFetchSettles(c)
    \/ \E c \in 1..MaxContentCalls : RetryDelayElapses(c)

SpecContent == InitContent /\ [][NextContent]_vars

-----------------------------------------------------------------------------
(* The local pack and the sent history over the retention window *)

MaxHistory == 2
MaxLocalCalls == 1
MaxHistoryAdvances == 2
MsPerHour == 60 * MsPerMinute

\* getContentItem({ guildId, category, localOnly: true })
GetLocalItem == GetContentItemWith({TRUE}, MaxLocalCalls)

\* sentRepo.record of an item of the pack, as getFormattedContent and
\* recordSentContent make it
HistoryRecorded ==
    /\ \E g \in Guilds, item \in content.items :
        /\ Len(sentMessages[g]) < MaxHistory
        /\ sentMessages' = SentRepoRecord(sentMessages, g, "", item.id,
                                          Instant(dayOffset, now))
    /\ UNCHANGED <<now, cooldowns, guildConfigs, dayOffset, pureCalls, configRows, clientGuilds, schedulerTask,
                   cronActive, ticks, delivered, interactions, content, faults,
                   restarts, advances, everSet, lastOp>>

\* an hour, or the retention window, passes
HistoryClock ==
    /\ advances < MaxHistoryAdvances
    /\ \/ now' = now + MsPerHour /\ UNCHANGED dayOffset
       \/ dayOffset' = dayOffset + ANTI_REPETITION_DAYS /\ UNCHANGED now
    /\ advances' = advances + 1
    /\ UNCHANGED <<cooldowns, sentMessages, guildConfigs, pureCalls, configRows,
                   clientGuilds, schedulerTask, cronActive, ticks, delivered,
                   interactions, content, faults, restarts, everSet, lastOp>>

NextLocalPack ==
    \/ GetLocalItem
    \/ HistoryRecorded
    \/ HistoryClock

SpecLocalPack == InitContent /\ [][NextLocalPack]_vars

-----------------------------------------------------------------------------
(* The pure functions of the scheduler and of the filters, called directly *)

MaxPureCalls == 2

\* config/constants.ts CATEGORIES
Categories == {"motivation", "wellbeing", "focus", "team", "fun"}

\* slot strings: the keys of the table, a time that is no key, the empty
\* string and the name of a property every object inherits
SlotStrings == {"09:15", "12:45", "16:30", "11:00", "", "constructor"}

\* SLOT_CATEGORY_MAP[slot] on the object literal: an own property, a
\* property inherited from Object.prototype, or undefined
SlotCategoryMapGet(slot) ==
    IF slot = "09:15" THEN "motivation"
    ELSE IF slot = "12:45" THEN "wellbeing"
    ELSE IF slot = "16:30" THEN "team"
    ELSE IF slot = "constructor" THEN "[Function: Object]"
    ELSE "undefined"

\* jobs.ts getSlotCategory
GetSlotCategory(slot, cadence) ==
    LET mapped == SlotCategoryMapGet(slot) IN
    IF mapped # "undefined" THEN mapped
    ELSE IF cadence = 3 /\ slot = "12:45" THEN "wellbeing"
    ELSE "motivation"

PureCall(op, arg, ret) == [op |-> op, arg |-> arg, ret |-> ret]

\* the instants the functions are called at: midnight and 09:15 of the
\* Thursday of the epoch, 23:59 of that day, 23:30 of the Sunday after it
PureInstants == {0, StartMorning, StartLateEvening, 3 * MsPerDay + 1410 * MsPerMinute}

InitPure ==
    /\ now \in PureInstants
    /\ cooldowns = [k \in AllKeys |-> NoRow]
    /\ sentMessages = [g \in Guilds |-> <<>>]
    /\ guildConfigs = [g \in Guilds |-> ConfigDefault(g)]
    /\ dayOffset = 0
    /\ pureCalls = <<>>
    /\ configRows = {}
    /\ clientGuilds = Guilds
    /\ schedulerTask = "null"
    /\ cronActive = 0
    /\ ticks = <<>>
    /\ delivered = {}
    /\ interactions = <<>>
    /\ content = NoContentCalls
    /\ faults = 0
    /\ restarts = 0
    /\ advances = 0
    /\ everSet = {}
    /\ lastOp = SchedOp("init", 0)

PureFrame ==
    UNCHANGED <<now, cooldowns, sentMessages, guildConfigs, dayOffset,
                configRows, clientGuilds, schedulerTask, cronActive, ticks, delivered,
                interactions, content, faults, restarts, advances, everSet,
                lastOp>>

\* getSlotCategory(slot, cadence)
CallGetSlotCategory ==
    /\ Len(pureCalls) < MaxPureCalls
    /\ \E slot \in SlotStrings, cadence \in {2, 3} :
        pureCalls' = Append(pureCalls,
            PureCall("getSlotCategory", <<slot, cadence>>,
                     GetSlotCategory(slot, cadence)))
    /\ PureFrame

\* applyFilters(item)
CallApplyFilters ==
    /\ Len(pureCalls) < MaxPureCalls
    /\ \E text \in Texts :
        pureCalls' = Append(pureCalls,
            PureCall("applyFilters", text,
                     ApplyFilters([id |-> "item-1", text |-> text,
                                   provider |-> "local"])))
    /\ PureFrame

\* timezone strings: two zones of the IANA database, a string that names no
\* zone and the empty string
TimezoneStrings == ValidTimezones \cup {"Invalid/Timezone", ""}

\* getCurrentTimeInTimezone(timezone)
CallGetCurrentTime ==
    /\ Len(pureCalls) < MaxPureCalls
    /\ \E tz \in TimezoneStrings, hourCycle \in HourCycles :
        pureCalls' = Append(pureCalls,
            PureCall("getCurrentTimeInTimezone", <<tz, hourCycle>>,
                     GetCurrentTimeInTimezoneWith(tz, now, hourCycle)))
    /\ PureFrame

\* getCurrentDayOfWeek(timezone)
CallGetCurrentDayOfWeek ==
    /\ Len(pureCalls) < MaxPureCalls
    /\ \E tz \in TimezoneStrings, part \in WeekdayParts :
        pureCalls' = Append(pureCalls,
            PureCall("getCurrentDayOfWeek", <<tz, part>>,
                     GetCurrentDayOfWeekWith(tz, now, part)))
    /\ PureFrame

NextPure ==
    \/ CallGetSlotCategory
    \/ CallApplyFilters
    \/ CallGetCurrentTime
    \/ CallGetCurrentDayOfWeek

SpecPure == InitPure /\ [][NextPure]_vars

-----------------------------------------------------------------------------
(* Tenant configuration repository: db/guildConfigRepo.ts                    *)
(*                                                                           *)
(* A config passed to or returned by the repository is a record in the      *)
(* shape of GuildConfig: activeDays a sequence of numbers, scheduleTimes a   *)
(* sequence of "HH:MM" strings.  The TEXT of a list column is the sequence   *)
(* of its pieces: the elements and the "," between them.                     *)

MaxRepoAdvances == 2

\* String(n) of Array.prototype.join, for a day number
NumberToString(n) ==
    IF n = 0 THEN "0" ELSE IF n = 1 THEN "1" ELSE IF n = 2 THEN "2"
    ELSE IF n = 3 THEN "3" ELSE IF n = 4 THEN "4" ELSE IF n = 5 THEN "5"
    ELSE IF n = 6 THEN "6" ELSE "7"

\* Number(s) of map(Number): the empty string converts to 0
StringToNumber(s) ==
    IF s = "" THEN 0 ELSE CHOOSE n \in 0..7 : NumberToString(n) = s

\* Array.prototype.join(','): the empty array gives the empty string
RECURSIVE JoinComma(_)
JoinComma(list) ==
    IF list = <<>> THEN <<>>
    ELSE IF Len(list) = 1 THEN <<list[1]>>
    ELSE <<list[1], ",">> \o JoinComma(Tail(list))

\* String.prototype.split(','): the empty string gives one empty field
RECURSIVE SplitComma(_)
SplitComma(text) ==
    IF text = <<>> THEN <<"">>
    ELSE IF text[1] = "," THEN <<"">> \o SplitComma(Tail(text))
    ELSE IF Len(text) = 1 THEN <<text[1]>>
    ELSE <<text[1]>> \o SplitComma(SubSeq(text, 3, Len(text)))

\* activeDays.map(String) of join, and split(',').map(Number)
NumbersToStrings(list) == [n \in DOMAIN list |-> NumberToString(list[n])]
StringsToNumbers(list) == [n \in DOMAIN list |-> StringToNumber(list[n])]

\* SQLite CURRENT_TIMESTAMP: the instant in whole seconds
CurrentTimestamp(t) == t \div MsPerSecond

NullConfig == [guildId |-> "null"]

\* the row that upsert binds to its statement
RowOf(config, createdAt, updatedAt) ==
    [guildId |-> config.guildId,
     channelId |-> config.channelId,
     timezone |-> config.timezone,
     cadence |-> config.cadence,
     activeDays |-> JoinComma(NumbersToStrings(config.activeDays)),
     scheduleTimes |-> JoinComma(config.scheduleTimes),
     contextualEnabled |-> IF config.contextualEnabled THEN 1 ELSE 0,
     createdAt |-> createdAt,
     updatedAt |-> updatedAt]

\* the constraints of the table: channel_id NOT NULL, cadence IN (2, 3)
RowAccepted(config) == config.channelId # "null" /\ config.cadence \in {2, 3}

RowsOf(rows, guildId) == {r \in rows : r.guildId = guildId}

\* an upsert by INSERT OR REPLACE: the row is written anew
ConfigUpsertReplacing(rows, config, t) ==
    IF ~RowAccepted(config) THEN rows
    ELSE (rows \ RowsOf(rows, config.guildId))
            \cup {RowOf(config, CurrentTimestamp(t), CurrentTimestamp(t))}

\* GuildConfigRepository.upsert: INSERT ... ON CONFLICT(guild_id) DO UPDATE;
\* a constraint failure (DatabaseError) leaves the table as it is
ConfigUpsert(rows, config, t) ==
    IF ~RowAccepted(config) THEN rows
    ELSE IF RowsOf(rows, config.guildId) = {}
    THEN rows \cup {RowOf(config, CurrentTimestamp(t), CurrentTimestamp(t))}
    ELSE {IF r.guildId = config.guildId
          THEN RowOf(config, r.createdAt, CurrentTimestamp(t))
          ELSE r : r \in rows}

\* GuildConfigRepository.delete
ConfigDelete(rows, guildId) == rows \ RowsOf(rows, guildId)

\* GuildConfigRepository.mapRowToConfig
MapRowToConfig(row) ==
    [guildId |-> row.guildId,
     channelId |-> row.channelId,
     timezone |-> row.timezone,
     cadence |-> row.cadence,
     activeDays |-> StringsToNumbers(SplitComma(row.activeDays)),
     scheduleTimes |-> SplitComma(row.scheduleTimes),
     contextualEnabled |-> row.contextualEnabled = 1,
     createdAt |-> row.createdAt,
     updatedAt |-> row.updatedAt]

\* GuildConfigRepository.get
ConfigGet(rows, guildId) ==
    IF RowsOf(rows, guildId) = {} THEN NullConfig
    ELSE MapRowToConfig(CHOOSE r \in rows : r.guildId = guildId)

\* GuildConfigRepository.getAll
ConfigGetAll(rows) == {MapRowToConfig(r) : r \in rows}

\* the configs the repository is called with
RepoConfigs ==
    {[guildId |-> g, channelId |-> "chan-1", timezone |-> "Europe/Paris",
      cadence |-> 2, activeDays |-> <<1, 2, 3, 4, 5>>,
      scheduleTimes |-> <<"09:15", "16:30">>, contextualEnabled |-> FALSE] :
        g \in Guilds}
    \cup
    {[guildId |-> g, channelId |-> "chan-2", timezone |-> "UTC",
      cadence |-> 3, activeDays |-> <<6, 7>>,
      scheduleTimes |-> <<"09:15", "12:45", "16:30">>,
      contextualEnabled |-> TRUE] : g \in Guilds}
    \cup
    {[guildId |-> "g1", channelId |-> "chan-1", timezone |-> "UTC",
      cadence |-> 2, activeDays |-> <<>>, scheduleTimes |-> <<>>,
      contextualEnabled |-> FALSE],
     [guildId |-> "g1", channelId |-> "chan-2", timezone |-> "UTC",
      cadence |-> 2, activeDays |-> <<3>>, scheduleTimes |-> <<"12:45">>,
      contextualEnabled |-> TRUE],
     [guildId |-> "g1", channelId |-> "null", timezone |-> "UTC",
      cadence |-> 2, activeDays |-> <<1>>, scheduleTimes |-> <<"09:15">>,
      contextualEnabled |-> FALSE]}

RepoOp(name, key, arg, ret) == [op |-> name, key |-> key, arg |-> arg, ret |-> ret]

RepoFrame ==
    UNCHANGED <<cooldowns, sentMessages, guildConfigs, dayOffset, pureCalls,
                clientGuilds, schedulerTask, cronActive, ticks, delivered,
                interactions, content, faults, restarts, everSet>>

\* guildConfigRepo.upsert(config)
RepoUpsert ==
    /\ \E config \in RepoConfigs :
        /\ configRows' = ConfigUpsert(configRows, config, now)
        /\ lastOp' = RepoOp("upsert", config.guildId, config,
                            IF RowAccepted(config) THEN 0 ELSE 1)
    /\ UNCHANGED <<now, advances>>
    /\ RepoFrame

\* guildConfigRepo.delete(guildId)
RepoDelete ==
    /\ \E g \in Guilds :
        /\ configRows' = ConfigDelete(configRows, g)
        /\ lastOp' = RepoOp("delete", g, 0, 0)
    /\ UNCHANGED <<now, advances>>
    /\ RepoFrame

\* a second passes
RepoClock ==
    /\ advances < MaxRepoAdvances
    /\ now' = now + MsPerSecond
    /\ advances' = advances + 1
    /\ lastOp' = RepoOp("advance", "", 0, 0)
    /\ UNCHANGED configRows
    /\ RepoFrame

NextConfigRepo ==
    \/ RepoUpsert
    \/ RepoDelete
    \/ RepoClock

SpecConfigRepo == InitPure /\ [][NextConfigRepo]_vars

-----------------------------------------------------------------------------
(* The settings command: commands/happySettings.ts *)

\* the config executeHappySettings creates for a guild that has none
DefaultSettings(guildId, channelId) ==
    [guildId |-> guildId, channelId |-> channelId, timezone |-> "Europe/Paris",
     cadence |-> 2, activeDays |-> <<1, 2, 3, 4, 5>>,
     scheduleTimes |-> <<"09:15", "16:30">>, contextualEnabled |-> FALSE]

\* isValidTimeFormat: /^([0-1][0-9]|2[0-3]):([0-5][0-9])$/ on the strings
\* the options are drawn from
IsValidTimeFormat(time) == time \in {"09:15", "12:45", "16:30"}

\* the options of one invocation; 0 and "" are an omitted option
SettingsOptions ==
    [cadence : {0, 2, 3}, slot1 : {"", "09:15", "9:15"}, slot2 : {"", "16:30"},
     slot3 : {"", "12:45"}, contextualMode : {"null", "true"}]

\* newSlots: the slot options given, in the order slot1, slot2, slot3
NewSlots(opts) ==
    (IF opts.slot1 # "" THEN <<opts.slot1>> ELSE <<>>)
        \o (IF opts.slot2 # "" THEN <<opts.slot2>> ELSE <<>>)
        \o (IF opts.slot3 # "" THEN <<opts.slot3>> ELSE <<>>)

HasUpdates(opts) ==
    opts.cadence # 0 \/ NewSlots(opts) # <<>> \/ opts.contextualMode # "null"

\* { ...config, ...updates }
UpdatedConfig(config, opts) ==
    [config EXCEPT
        !.cadence = IF opts.cadence # 0 THEN opts.cadence ELSE @,
        !.contextualEnabled = IF opts.contextualMode # "null" THEN TRUE ELSE @,
        !.scheduleTimes = IF NewSlots(opts) # <<>> THEN NewSlots(opts) ELSE @]

\* The table after executeHappySettings for an administrator: the default
\* config is stored when the guild has none; the update is stored unless a
\* slot is malformed or the number of slots given differs from the cadence.
SettingsStore(rows, guildId, channelId, opts, t) ==
    LET created == IF ConfigGet(rows, guildId) = NullConfig
                   THEN ConfigUpsert(rows, DefaultSettings(guildId, channelId), t)
                   ELSE rows
        config == ConfigGet(created, guildId)
        targetCadence == IF opts.cadence # 0 THEN opts.cadence ELSE config.cadence
    IN  IF config = NullConfig \/ ~HasUpdates(opts) THEN created
        ELSE IF \E n \in DOMAIN NewSlots(opts) : ~IsValidTimeFormat(NewSlots(opts)[n])
        THEN created
        ELSE IF NewSlots(opts) # <<>> /\ Len(NewSlots(opts)) # targetCadence
        THEN created
        ELSE ConfigUpsert(created, UpdatedConfig(config, opts), t)

\* executeHappySettings(interaction)
ExecuteHappySettings ==
    /\ \E g \in Guilds, admin \in BOOLEAN, opts \in SettingsOptions :
        /\ configRows' = IF admin
                         THEN SettingsStore(configRows, g, "chan-1", opts, now)
                         ELSE configRows
        /\ lastOp' = RepoOp("happySettings", g, 0, IF admin THEN 0 ELSE 1)
    /\ UNCHANGED <<now, advances>>
    /\ RepoFrame

InitSettings == InitPure /\ now = StartMorning

NextSettings ==
    \/ ExecuteHappySettings

SpecSettings == InitSettings /\ [][NextSettings]_vars

-----------------------------------------------------------------------------
(* The cooldown store driven through its interface *)

Durations == {30, SLOT_LOCK_SECONDS}
StoreStep == 30 * MsPerSecond

StoreOp(name, key, arg, ret) == [op |-> name, key |-> key, arg |-> arg, ret |-> ret]

InitStore ==
    /\ now \in {StartMorning, StartLateEvening}
    /\ cooldowns = [k \in AllKeys |-> NoRow]
    /\ sentMessages = [g \in Guilds |-> <<>>]
    /\ guildConfigs = [g \in Guilds |-> ConfigDefault(g)]
    /\ dayOffset = 0
    /\ pureCalls = <<>>
    /\ configRows = {}
    /\ clientGuilds = Guilds
    /\ schedulerTask = "null"
    /\ cronActive = 0
    /\ ticks = <<>>
    /\ delivered = {}
    /\ interactions = <<>>
    /\ content = NoContentCalls
    /\ faults = 0
    /\ restarts = 0
    /\ advances = 0
    /\ everSet = {}
    /\ lastOp = SchedOp("init", 0)

\* cooldownRepo.setWithDuration(key, durationSeconds)
ApiSetWithDuration ==
    \E key \in ApiKeys, d \in Durations :
        /\ cooldowns' = CooldownSetWithDuration(cooldowns, key, d, now)
        /\ everSet' = everSet \cup {key}
        /\ lastOp' = StoreOp("setWithDuration", key, d, 0)
        /\ UNCHANGED <<now, advances, schedVars>>

\* cooldownRepo.set(key, expiresAt), expiresAt = new Date(Date.now() + ...)
ApiSet ==
    \E key \in ApiKeys :
        /\ cooldowns' = CooldownSet(cooldowns, key, now + MsPerMinute)
        /\ everSet' = everSet \cup {key}
        /\ lastOp' = StoreOp("set", key, now + MsPerMinute, 0)
        /\ UNCHANGED <<now, advances, schedVars>>

\* cooldownRepo.delete(key); ret: the rows the statement changed
ApiDelete ==
    \E key \in ApiKeys :
        /\ cooldowns' = CooldownDelete(cooldowns, key)
        /\ lastOp' = RepoOp("delete", key, 0, IF cooldowns[key] = NoRow THEN 0 ELSE 1)
        /\ UNCHANGED <<now, advances, everSet, schedVars>>

\* cooldownRepo.cleanup(); ret: result.changes
ApiCleanup ==
    /\ cooldowns' = CooldownCleanup(cooldowns, now)
    /\ lastOp' = StoreOp("cleanup", <<>>, 0, Cardinality(CleanupRemoved(cooldowns, now)))
    /\ UNCHANGED <<now, advances, everSet, schedVars>>

StoreAdvance ==
    /\ advances < MaxStoreAdvances
    /\ advances' = advances + 1
    /\ now' = now + StoreStep
    /\ lastOp' = SchedOp("advance", 0)
    /\ UNCHANGED <<cooldowns, everSet, schedVars>>

NextStore ==
    \/ ApiSetWithDuration
    \/ ApiSet
    \/ ApiDelete
    \/ ApiCleanup
    \/ StoreAdvance

SpecCooldown == InitStore /\ [][NextStore]_vars

-----------------------------------------------------------------------------
(* The cooldown store of several tenants and the per-tenant delete *)

\* the guild IDs deleteForGuild is called with: "1" is the ID of no guild
GuildIdArgs == {<<"1">>, <<"1", "2">>, <<"1", "2", "3">>}

TenantKeys == ApiKeys \cup ContextualKeys \cup {GetSlotCooldownKey(g, T0915) : g \in Guilds}

\* cooldownRepo.setWithDuration(key, 60) by one of the paths that use the store
TenantSetWithDuration ==
    \E key \in TenantKeys :
        /\ cooldowns' = CooldownSetWithDuration(cooldowns, key, NOW_COMMAND, now)
        /\ everSet' = everSet \cup {key}
        /\ lastOp' = StoreOp("setWithDuration", key, NOW_COMMAND, 0)
        /\ UNCHANGED <<now, advances, schedVars>>

\* cooldownRepo.deleteForGuild(guildId); ret: result.changes
ApiDeleteForGuild ==
    \E t \in GuildIdArgs :
        /\ cooldowns' = CooldownDeleteForGuild(cooldowns, t)
        /\ lastOp' = StoreOp("deleteForGuild", t, 0,
                             Cardinality(DeleteForGuildRemoved(cooldowns, t)))
        /\ UNCHANGED <<now, advances, everSet, schedVars>>

NextTenantStore ==
    \/ TenantSetWithDuration
    \/ ApiDeleteForGuild

SpecTenantStore == InitStore /\ [][NextTenantStore]_vars

-----------------------------------------------------------------------------
(* The sent history and its pruning: db/sentRepo.ts *)

MaxRetentionAdvances == 3

\* the default of cleanup(days)
CLEANUP_DAYS == 90

\* the rows DELETE ... WHERE sent_at > datetime('now', '-' || ? || ' days')
\* would remove
SentRepoCleanupNewer(sm, i, days) ==
    [g \in DOMAIN sm |->
        LET Kept(row) == ~TextGreater(row.sentAt, SqlDatetimeDaysAgo(i, days))
        IN  SelectSeq(sm[g], Kept)]

\* SentMessageRepository.cleanup: DELETE FROM sent_messages
\* WHERE sent_at < datetime('now', '-' || ? || ' days')
SentRepoCleanup(sm, i, days) ==
    [g \in DOMAIN sm |->
        LET Kept(row) == ~TextGreater(SqlDatetimeDaysAgo(i, days), row.sentAt)
        IN  SelectSeq(sm[g], Kept)]

RECURSIVE RowCount(_, _)
RowCount(sm, guilds) ==
    IF guilds = {} THEN 0
    ELSE LET g == CHOOSE x \in guilds : TRUE
         IN  Len(sm[g]) + RowCount(sm, guilds \ {g})

\* result.changes of the DELETE
CleanupChanges(sm, i, days) ==
    RowCount(sm, DOMAIN sm) - RowCount(SentRepoCleanup(sm, i, days), DOMAIN sm)

\* the content IDs of the rows
HistoryContentIds == {"mot-001", "mot-002"}

InitRetention == InitStore /\ now = StartMorning

RetentionFrame ==
    UNCHANGED <<cooldowns, guildConfigs, pureCalls, configRows, clientGuilds,
                schedulerTask, cronActive, ticks, delivered, interactions,
                content, faults, restarts, everSet>>

\* sentRepo.record({ ..., sentAt: new Date() })
SentRecord ==
    /\ \E g \in Guilds, c \in HistoryContentIds :
        /\ Len(sentMessages[g]) < MaxHistory
        /\ sentMessages' = SentRepoRecord(sentMessages, g, "chan", c,
                                          Instant(dayOffset, now))
        /\ lastOp' = RepoOp("record", <<g, c>>, 0, 0)
    /\ RetentionFrame
    /\ UNCHANGED <<now, dayOffset, advances>>

\* sentRepo.cleanup()
SentCleanup ==
    /\ sentMessages' = SentRepoCleanup(sentMessages, Instant(dayOffset, now),
                                       CLEANUP_DAYS)
    /\ lastOp' = RepoOp("sentCleanup", <<>>, CLEANUP_DAYS,
                        CleanupChanges(sentMessages, Instant(dayOffset, now),
                                       CLEANUP_DAYS))
    /\ RetentionFrame
    /\ UNCHANGED <<now, dayOffset, advances>>

\* an hour, the rest of a day, the lookup window or the retention window
\* passes
RetentionClock ==
    /\ advances < MaxRetentionAdvances
    /\ advances' = advances + 1
    /\ \/ now' = now + MsPerHour /\ UNCHANGED dayOffset
       \/ now' = now + 23 * MsPerHour /\ UNCHANGED dayOffset
       \/ dayOffset' = dayOffset + ANTI_REPETITION_DAYS /\ UNCHANGED now
       \/ dayOffset' = dayOffset + CLEANUP_DAYS /\ UNCHANGED now
    /\ lastOp' = RepoOp("advance", <<>>, 0, 0)
    /\ RetentionFrame
    /\ UNCHANGED sentMessages

NextRetention ==
    \/ SentRecord
    \/ SentCleanup
    \/ RetentionClock

SpecRetention == InitRetention /\ [][NextRetention]_vars

-----------------------------------------------------------------------------
(* Claims about the cooldown store *)

OnCooldown(key) == IsOnCooldown(cooldowns, key, now)

\* C9: a key never set is not on cooldown; right after setWithDuration(k, d),
\* d > 0, k is on cooldown and the row of every other key is as before; right
\* after delete(k), k is not on cooldown, and delete of an absent key changes
\* no row.
C9_Step ==
    /\ \A k \in AllKeys : k \notin everSet => ~OnCooldown(k)
    /\ lastOp'.op = "setWithDuration" /\ lastOp'.arg > 0 =>
        /\ IsOnCooldown(cooldowns', lastOp'.key, now')
        /\ \A k \in AllKeys \ {lastOp'.key} : cooldowns'[k] = cooldowns[k]
    /\ lastOp'.op = "delete" =>
        /\ ~IsOnCooldown(cooldowns', lastOp'.key, now')
        /\ lastOp'.ret = 0 => cooldowns' = cooldowns
        /\ \A k \in AllKeys \ {lastOp'.key} : cooldowns'[k] = cooldowns[k]

C9_SetAndDelete == [][C9_Step]_vars

\* a delete that removed the row of a key on cooldown, the other key still
\* being on cooldown
C9_Witness ==
    /\ lastOp.op = "delete"
    /\ lastOp.ret = 1
    /\ lastOp.key \in everSet
    /\ \E k \in ApiKeys \ {lastOp.key} : OnCooldown(k)

\* C10: once the current time is at or past the stored expiry of a key, get
\* reports it absent and isOnCooldown is false, swept or not; get returns an
\* expiry only when it is strictly in the future.
C10_LazyExpiry ==
    \A k \in AllKeys :
        /\ cooldowns[k] # NoRow /\ ParseDate(cooldowns[k]) <= now =>
              CooldownGet(cooldowns, k, now) = NoRow /\ ~OnCooldown(k)
        /\ CooldownGet(cooldowns, k, now) # NoRow =>
              ParseDate(CooldownGet(cooldowns, k, now)) > now

RemainingMs(key) == GetRemainingMs(cooldowns, key, now)

\* C11: right after setWithDuration(k, d) the remaining time of k is within
\* [0, d * 1000]; while k is not set again the remaining time never increases;
\* it is never negative, and it is 0 for every key that has no row or whose
\* stored expiry is not after the current time.
C11_Step ==
    /\ lastOp'.op = "setWithDuration" =>
          GetRemainingMs(cooldowns', lastOp'.key, now') \in
              0 .. lastOp'.arg * MsPerSecond
    /\ \A k \in AllKeys :
          /\ ~(lastOp'.op \in {"set", "setWithDuration"} /\ lastOp'.key = k) =>
                GetRemainingMs(cooldowns', k, now') <= RemainingMs(k)
          /\ GetRemainingMs(cooldowns', k, now') >= 0
          /\ (cooldowns'[k] = NoRow \/ ParseDate(cooldowns'[k]) <= now') =>
                GetRemainingMs(cooldowns', k, now') = 0

C11_RemainingBounds == [][C11_Step]_vars

\* the clock has passed the expiry of a row that is still stored and still
\* selected by get, and the remaining time has come down to 0
C11_Witness ==
    /\ lastOp.op = "advance"
    /\ \E k \in ApiKeys :
          /\ cooldowns[k] # NoRow
          /\ ParseDate(cooldowns[k]) < now
          /\ CooldownGet(cooldowns, k, now) # NoRow
          /\ RemainingMs(k) = 0

\* C12: cleanup() removes exactly the rows whose expiry is <= now, leaves the
\* rows whose expiry is > now as they are, and returns the number removed.
C12_Step ==
    lastOp'.op = "cleanup" =>
        /\ \A k \in AllKeys :
              cooldowns'[k] =
                  IF cooldowns[k] # NoRow /\ ParseDate(cooldowns[k]) <= now
                  THEN NoRow
                  ELSE cooldowns[k]
        /\ lastOp'.ret =
              Cardinality({k \in AllKeys : cooldowns[k] # NoRow /\ cooldowns'[k] = NoRow})

C12_SweepExactness == [][C12_Step]_vars

\* the text begins with "guild:<t>:"
BeginsWithGuild(text, t) ==
    /\ Len(text) >= Len(t) + 3
    /\ SubSeq(text, 1, Len(t) + 3) = <<"guild", ":">> \o t \o <<":">>

\* C13: deleteForGuild(t) removes every key that begins with "guild:<t>:",
\* returns the number of rows removed, and leaves the row of every key of
\* another tenant as it was, also when t is a prefix of that tenant's ID.
C13_Step ==
    lastOp'.op = "deleteForGuild" =>
        /\ \A k \in AllKeys :
              BeginsWithGuild(KeyText(k), lastOp'.key) => cooldowns'[k] = NoRow
        /\ lastOp'.ret =
              Cardinality({k \in AllKeys : cooldowns[k] # NoRow /\ cooldowns'[k] = NoRow})
        /\ \A k \in AllKeys :
              GuildIdText(k[2]) # lastOp'.key => cooldowns'[k] = cooldowns[k]

C13_TenantPrefixDelete == [][C13_Step]_vars

\* deleteForGuild("12") has removed both "guild:12:..." rows while a row of
\* the guild with the ID "123" is still stored
C13_Witness ==
    /\ lastOp.op = "deleteForGuild"
    /\ lastOp.key = <<"1", "2">>
    /\ lastOp.ret = 2
    /\ cooldowns[NowKey("g2")] # NoRow

-----------------------------------------------------------------------------
(* Claims about the on-demand command *)

IsScheduledKey(k) == k[1] = "scheduled"
IsNowKey(k) == k[1] = "guild" /\ k[3] = "now"

\* the store with only the rows of one key space
OnlyNowRows(cd) == [k \in DOMAIN cd |-> IF IsNowKey(k) THEN cd[k] ELSE NoRow]
OnlyScheduledRows(cd) == [k \in DOMAIN cd |-> IF IsScheduledKey(k) THEN cd[k] ELSE NoRow]

\* the invocation a step of the on-demand path has created or resumed
NowStepOf(i) ==
    /\ i \in DOMAIN interactions'
    /\ i \in DOMAIN interactions => interactions'[i] # interactions[i]

\* C14: the /now duration is shorter than the slot lock.  A step of the
\* on-demand path writes no row but "guild:<g>:now" of its own guild, with an
\* expiry 60 s ahead, leaves the scheduled path alone, and its rate-limit
\* decision is the one it would take with every other row removed.  A step of
\* the scheduled path writes no row but a "scheduled:<g>:<slot>" one, 90 s
\* ahead, leaves the invocations alone, and the scheduled calls it makes
\* proceed exactly when they would with every other row removed.
C14_Step ==
    /\ NOW_COMMAND < SLOT_LOCK_SECONDS
    /\ \A i \in 1..MaxInteractions : NowStepOf(i) =>
          /\ cooldowns' # cooldowns =>
                \A k \in AllKeys : cooldowns'[k] # cooldowns[k] =>
                    /\ IsNowKey(k) /\ k[2] = interactions'[i].guildId
                    /\ cooldowns'[k] = ToISOString(now + NOW_COMMAND * MsPerSecond)
          /\ ticks' = ticks /\ delivered' = delivered
          /\ i \notin DOMAIN interactions =>
                (interactions'[i].pc = "replying") =
                    (GetRemainingMs(OnlyNowRows(cooldowns),
                         <<"guild", interactions'[i].guildId, "now">>, now) > 0)
    /\ ticks' # ticks =>
          /\ cooldowns' # cooldowns =>
                \A k \in AllKeys : cooldowns'[k] # cooldowns[k] =>
                    /\ IsScheduledKey(k)
                    /\ cooldowns'[k] = ToISOString(now + SLOT_LOCK_SECONDS * MsPerSecond)
          /\ interactions' = interactions
          /\ \A g \in Guilds, slot \in {T0915, T1015, T1630} :
                CallProceeds(g, slot, guildConfigs, clientGuilds, cooldowns', now) =
                    CallProceeds(g, slot, guildConfigs, clientGuilds,
                                 OnlyScheduledRows(cooldowns'), now)

C15_Step ==
    \A i \in 1..MaxInteractions : NowStepOf(i) =>
        /\ i \notin DOMAIN interactions =>
              (GetRemainingMs(cooldowns, <<"guild", interactions'[i].guildId, "now">>, now) > 0
                   => interactions'[i].remainingMs > 0 /\ interactions'[i].pc = "replying")
        /\ interactions'[i].remainingMs > 0 =>
              /\ interactions'[i].pc \in {"replying", "done"}
              /\ interactions'[i].item = "none"
              /\ interactions'[i].deliveredAt = -1
              /\ sentMessages' = sentMessages
              /\ cooldowns' = cooldowns

C15_RateLimit == [][C15_Step]_vars

\* an invocation made during the cooldown an earlier delivery has set was
\* answered with the remaining wait
C15_Witness ==
    \E i, j \in DOMAIN interactions :
        /\ i < j
        /\ interactions[i].guildId = interactions[j].guildId
        /\ interactions[i].outcome = "sent"
        /\ interactions[j].remainingMs > 0
        /\ interactions[j].outcome = "rateLimited"

\* the awaited calls of the try block whose failure is a failure of content
\* selection or of delivery
SelectionOrDelivery == {"fetch", "send", "followUp"}

\* the cooldown row is written only by an invocation that has delivered its
\* message, and the step in which content selection or delivery fails
\* leaves the cooldown rows as they are
C16_CooldownPart ==
    \A i \in 1..MaxInteractions : NowStepOf(i) =>
        /\ cooldowns' # cooldowns =>
              /\ interactions'[i].deliveredAt >= 0
              /\ interactions'[i].outcome = "sent"
              /\ cooldowns' = [cooldowns EXCEPT
                    ![<<"guild", interactions'[i].guildId, "now">>] =
                        ToISOString(now + NOW_COMMAND * MsPerSecond)]
        /\ interactions'[i].failedAt \in SelectionOrDelivery =>
              /\ cooldowns' = cooldowns
              /\ interactions'[i].deliveredAt = -1

\* C16 as stated: the cooldown is set only after delivery, a failure of
\* content selection or delivery leaves it unchanged, and an invocation
\* whose content selection or delivery failed does not throw.
C16_Step ==
    /\ C16_CooldownPart
    /\ \A i \in DOMAIN interactions' :
          interactions'[i].failedAt \in SelectionOrDelivery =>
              interactions'[i].outcome # "thrown"

C16_SetOnlyAfterSuccess == [][C16_Step]_vars

\* C16, amended: the cooldown is set only after delivery and a failure of
\* content selection or delivery leaves it unchanged; the failure is caught
\* and answered with editReply, and the invocation throws only when that
\* editReply itself rejects.
C16_AmendedStep ==
    /\ C16_CooldownPart
    /\ \A i \in 1..MaxInteractions : NowStepOf(i) =>
          /\ interactions'[i].failedAt \in SelectionOrDelivery
                /\ interactions'[i].pc # "done" =>
                    interactions'[i].pc = "reporting" /\ interactions'[i].outcome = "pending"
          /\ interactions'[i].failedAt \in SelectionOrDelivery
                /\ interactions'[i].outcome = "thrown" =>
                    i \in DOMAIN interactions /\ interactions[i].pc = "reporting"

C16_SetOnlyAfterSuccessAmended == [][C16_AmendedStep]_vars

\* one invocation failed at content selection and was answered, the cooldown
\* row of its guild absent, and a later invocation for the guild delivered
\* and set the cooldown
C16_Witness ==
    \E i, j \in DOMAIN interactions :
        /\ i < j
        /\ interactions[i].guildId = interactions[j].guildId
        /\ interactions[i].failedAt = "fetch"
        /\ interactions[i].outcome = "reported"
        /\ interactions[j].remainingMs = 0
        /\ interactions[j].outcome = "sent"
        /\ cooldowns[NowKey(interactions[j].guildId)] # NoRow

\* C17: with no failure, two on-demand messages to one guild are at least
\* 60 seconds apart.
C17_ConcurrentRateLimit ==
    faults = 0 =>
        \A i, j \in DOMAIN interactions :
            /\ i # j
            /\ interactions[i].guildId = interactions[j].guildId
            /\ interactions[i].deliveredAt >= 0
            /\ interactions[j].deliveredAt >= 0
            => interactions[j].deliveredAt - interactions[i].deliveredAt
                   >= NOW_COMMAND * MsPerSecond
               \/ interactions[i].deliveredAt - interactions[j].deliveredAt
                   >= NOW_COMMAND * MsPerSecond

-----------------------------------------------------------------------------
(* Claims about the content selection chain *)

\* C18: a call with localOnly = false whose remote provider has failed has
\* asked the local pack and has not rejected with the remote failure; a
\* call with localOnly = true never calls the remote provider.
C18_RemoteToLocalFallback ==
    \A c \in DOMAIN content.calls :
        LET call == content.calls[c] IN
        /\ call.error # "ApiProviderError"
        /\ ~call.localOnly /\ call.apiError =>
              /\ call.pc = "done"
              /\ call.lookups = 1
              /\ \/ call.result.id # "none"
                 \/ call.error \in {"ContentNotFoundError", "DatabaseError"}
        /\ call.localOnly =>
              call.fetches = 0 /\ ~call.apiError /\ call.waits = <<>> /\ call.lookups = 1

\* the remote provider failed by the safety filter on its last attempt and
\* the call resolved with an item of the local pack
C18_Witness ==
    \E c \in DOMAIN content.calls :
        /\ ~content.calls[c].localOnly
        /\ content.calls[c].apiError
        /\ content.calls[c].lastError = "filter"
        /\ content.calls[c].result.id # "none"
        /\ content.calls[c].result.provider = "local"

\* C19: getItem makes at most MAX_RETRIES + 1 = 3 fetch attempts; the delays
\* it has awaited are 1000 ms, then 2000 ms, one before each attempt after
\* the first; it returns at the first attempt that succeeds, and it ends
\* with ApiProviderError exactly when the third attempt has failed.
C19_BoundedRetries ==
    /\ MAX_RETRIES + 1 = 3
    /\ \A c \in DOMAIN content.calls :
        LET call == content.calls[c] IN
        /\ call.fetches <= MAX_RETRIES + 1
        /\ Len(call.waits) <= 2
        /\ call.waits = SubSeq(<<1000, 2000>>, 1, Len(call.waits))
        /\ Len(call.waits) = call.attempt \/ call.apiError
        /\ call.pc = "fetching" => call.fetches = call.attempt + 1
        /\ call.pc = "delaying" => call.fetches = call.attempt
        /\ call.apiError <=> call.fetches = 3 /\ call.attempt = 3
        /\ call.result.id # "none" /\ call.result.provider = "api" =>
              call.pc = "done" /\ call.fetches = call.attempt + 1 /\ ~call.apiError

\* a call whose third attempt failed after delays of 1000 ms and 2000 ms
C19_Witness ==
    \E c \in DOMAIN content.calls :
        /\ content.calls[c].apiError
        /\ content.calls[c].fetches = 3
        /\ content.calls[c].waits = <<1000, 2000>>

\* C20: every item getContentItem has resolved with, from the remote
\* provider or from the local pack, passes applyFilters: it is not empty
\* after trim, has at most 600 characters, no banned term, at most 2 emoji.
C20_OnlySafeContent ==
    \A c \in DOMAIN content.calls :
        LET item == content.calls[c].result IN
        item.id # "none" =>
            /\ ApplyFilters(item) = "passed"
            /\ ~item.text.blank
            /\ item.text.length <= 600
            /\ ~item.text.banned
            /\ item.text.emojis <= 2

\* one call resolved with a remote item and one with a local item, the pack
\* file holding messages that fail the filters
C20_Witness ==
    /\ \E c \in DOMAIN content.calls : content.calls[c].result.id # "none"
                                        /\ content.calls[c].result.provider = "api"
    /\ \E c \in DOMAIN content.calls : content.calls[c].result.id # "none"
                                        /\ content.calls[c].result.provider = "local"
    /\ Cardinality(content.items) = 2

-----------------------------------------------------------------------------
(* Claims about the local pack and the sent history *)

\* the content ID was recorded as sent to the guild at most `days` days
\* before the instant i
SentWithin(sm, guildId, contentId, days, i) ==
    \E n \in DOMAIN sm[guildId] :
        /\ sm[guildId][n].contentId = contentId
        /\ \/ sm[guildId][n].sentAt.date > i.day - days
           \/ /\ sm[guildId][n].sentAt.date = i.day - days
              /\ sm[guildId][n].sentAt.tod >= i.tod

\* the call that the step has made
NewCall == content'.calls[Len(content'.calls)]

C21_Step ==
    Len(content'.calls) > Len(content.calls)
        /\ NewCall.guildId # "" /\ NewCall.error = "none" =>
    /\ NewCall.draws <= MAX_RETRY_ATTEMPTS
    /\ \A id \in NewCall.skipped :
          SentWithin(sentMessages, NewCall.guildId, id, ANTI_REPETITION_DAYS,
                     Instant(dayOffset, now))
    /\ NewCall.hits = MAX_RETRY_ATTEMPTS => NewCall.result.id = NewCall.lastDrawn
    /\ SentWithin(sentMessages, NewCall.guildId, NewCall.result.id,
                  ANTI_REPETITION_DAYS, Instant(dayOffset, now)) =>
          NewCall.hits = MAX_RETRY_ATTEMPTS

\* C21: getItem with a guildId makes at most 10 draws, skips a drawn item
\* only when its content ID was recorded as sent to the guild within 30
\* days, returns the 10th drawn item when all 10 draws were skipped, and so
\* returns an item sent within 30 days only after 10 skipped draws.
C21_DrawLoop == [][C21_Step]_vars

\* C22: a getContentItem call that has ended has failed exactly when the
\* remote provider was skipped or failed and the pack has no candidate of the
\* requested category, the failure is ContentNotFoundError, and a call that
\* found candidates in the pack has returned an item.
C22_FailsOnlyOnExhaustion ==
    \A c \in DOMAIN content.calls :
        LET call == content.calls[c]
            exhausted == /\ call.localOnly \/ call.apiError
                         /\ GetCandidates(content.items, call.category) = {}
        IN  call.pc = "done" =>
            /\ call.error # "none" <=> exhausted
            /\ call.error # "none" => call.error = "ContentNotFoundError"
            /\ ~exhausted => call.result.id # "none"

-----------------------------------------------------------------------------
(* Claims about the pure functions *)

PureCallsOf(op) == {n \in DOMAIN pureCalls : pureCalls[n].op = op}

\* C24: getSlotCategory returns a category for every slot string and
\* cadence: motivation for "09:15", wellbeing for "12:45", team for "16:30",
\* whatever the cadence, and motivation for every other slot string.
C24_SlotResolverTotal ==
    \A n \in PureCallsOf("getSlotCategory") :
        LET slot == pureCalls[n].arg[1]
            ret == pureCalls[n].ret
        IN  /\ ret \in Categories
            /\ slot = "09:15" => ret = "motivation"
            /\ slot = "12:45" => ret = "wellbeing"
            /\ slot = "16:30" => ret = "team"
            /\ slot \notin {"09:15", "12:45", "16:30"} => ret = "motivation"

\* C25: applyFilters reports the length failure when the length check
\* fails, otherwise the banned-term failure when that check fails, otherwise
\* the emoji failure when that check fails, and passed exactly when all
\* three checks pass; a text both too long and with a banned term is
\* reported as too long.
C25_FilterOrder ==
    \A n \in PureCallsOf("applyFilters") :
        LET text == pureCalls[n].arg
            ret == pureCalls[n].ret
            lengthFails == text.length > 600 \/ text.blank
        IN  /\ lengthFails => ret = CheckLength(text) /\ ret \in {"tooLong", "empty"}
            /\ ~lengthFails /\ text.banned => ret = "bannedWord"
            /\ ~lengthFails /\ ~text.banned /\ text.emojis > 2 => ret = "tooManyEmojis"
            /\ text.length > 600 /\ text.banned => ret = "tooLong"
            /\ ret = "passed" <=> /\ CheckLength(text) = "passed"
                                  /\ CheckBannedWords(text) = "passed"
                                  /\ CheckEmojiCount(text) = "passed"

\* applyFilters was called with a text that is too long, holds a banned
\* term and has too many emoji, and with a text that passes
C25_Witness ==
    /\ \E n \in PureCallsOf("applyFilters") :
          /\ pureCalls[n].arg.length > 600
          /\ pureCalls[n].arg.banned
          /\ pureCalls[n].arg.emojis > 2
          /\ pureCalls[n].ret = "tooLong"
    /\ \E n \in PureCallsOf("applyFilters") : pureCalls[n].ret = "passed"

\* C28: for every timezone string getCurrentTimeInTimezone returns an hour
\* in 0..23 and a minute in 0..59, the first hour of the day as 0 whatever
\* the runtime formats it as, and getCurrentDayOfWeek returns a day in 1..7,
\* 1 when the weekday part is no key of the map; for a string that names no
\* zone both return the value of the UTC clock.
C28_TimeResolverTotal ==
    /\ \A n \in PureCallsOf("getCurrentTimeInTimezone") :
          LET tz == pureCalls[n].arg[1]
              ret == pureCalls[n].ret
          IN  /\ ret[1] \in 0..23
              /\ ret[2] \in 0..59
              /\ tz \notin ValidTimezones =>
                    ret = <<(now % 86400000) \div 3600000,
                            ((now % 86400000) \div 60000) % 60>>
              /\ tz = "UTC" =>
                    ret = <<(now % 86400000) \div 3600000,
                            ((now % 86400000) \div 60000) % 60>>
    /\ \A n \in PureCallsOf("getCurrentDayOfWeek") :
          LET tz == pureCalls[n].arg[1]
              part == pureCalls[n].arg[2]
              ret == pureCalls[n].ret
              utcDay == ((now \div 86400000 + 3) % 7) + 1
          IN  /\ ret \in 1..7
              /\ tz \notin ValidTimezones => ret = utcDay
              /\ tz = "UTC" /\ part = "short" => ret = utcDay
              /\ tz \in ValidTimezones /\ part = "other" => ret = 1

\* at 23:30 UTC of a Sunday: the Paris clock, formatted as "24:30" by the
\* runtime, resolved to 00:30, and the weekday of a string that names no
\* zone resolved to 7
C28_Witness ==
    /\ \E n \in PureCallsOf("getCurrentTimeInTimezone") :
          /\ pureCalls[n].arg = <<"Europe/Paris", "h24">>
          /\ pureCalls[n].ret = <<0, 30>>
    /\ \E n \in PureCallsOf("getCurrentDayOfWeek") :
          /\ pureCalls[n].arg[1] = "Invalid/Timezone"
          /\ pureCalls[n].ret = 7

-----------------------------------------------------------------------------
(* Claims about the tenant configuration repository *)

C26_Step ==
    /\ lastOp'.op = "upsert" /\ lastOp'.ret = 0
            /\ RowsOf(configRows, lastOp'.key) # {} =>
          \A old \in RowsOf(configRows, lastOp'.key) :
          \A new \in RowsOf(configRows', lastOp'.key) :
              LET c == lastOp'.arg IN
              /\ new.channelId = c.channelId
              /\ new.timezone = c.timezone
              /\ new.cadence = c.cadence
              /\ new.activeDays = JoinComma(NumbersToStrings(c.activeDays))
              /\ new.scheduleTimes = JoinComma(c.scheduleTimes)
              /\ new.contextualEnabled = (IF c.contextualEnabled THEN 1 ELSE 0)
              /\ new.updatedAt = now \div 1000
              /\ new.createdAt = old.createdAt
              /\ ConfigGet(configRows', c.guildId).channelId = c.channelId
              /\ ConfigGet(configRows', c.guildId).cadence = c.cadence
              /\ ConfigGet(configRows', c.guildId).contextualEnabled
                    = c.contextualEnabled
    /\ lastOp'.op = "upsert" /\ lastOp'.ret = 0 =>
          /\ RowsOf(configRows', lastOp'.key) # {}
          /\ \A g \in Guilds \ {lastOp'.key} :
                RowsOf(configRows', g) = RowsOf(configRows, g)
    /\ lastOp'.op = "delete" =>
          /\ ConfigGet(configRows', lastOp'.key) = NullConfig
          /\ \A c \in ConfigGetAll(configRows') : c.guildId # lastOp'.key
          /\ ConfigDelete(configRows', lastOp'.key) = configRows'
          /\ RowsOf(configRows, lastOp'.key) = {} => configRows' = configRows
          /\ \A g \in Guilds \ {lastOp'.key} :
                RowsOf(configRows', g) = RowsOf(configRows, g)
    /\ \A g \in Guilds : Cardinality(RowsOf(configRows', g)) <= 1

\* C26: the table holds at most one row per guild; an upsert for a guild
\* that has a row gives the row every field of the config, the current time
\* as updated_at and the created_at it had; after a delete the guild has no
\* row, get is null and getAll does not hold the guild, and a second delete
\* changes nothing.
C26_UpsertDelete == [][C26_Step]_vars

\* a row updated at a later second than it was created, holding the
\* values of the second config
C26_Witness ==
    /\ lastOp.op = "upsert" /\ lastOp.ret = 0
    /\ \E r \in RowsOf(configRows, lastOp.key) :
          /\ r.updatedAt > r.createdAt
          /\ r.channelId = "chan-2"
          /\ r.cadence = 3

C27_Step ==
    lastOp'.op = "upsert" /\ lastOp'.ret = 0 =>
        /\ ConfigGet(configRows', lastOp'.key).activeDays = lastOp'.arg.activeDays
        /\ ConfigGet(configRows', lastOp'.key).scheduleTimes
              = lastOp'.arg.scheduleTimes

\* C27: after upsert(c), get(c.guildId) returns the activeDays and the
\* scheduleTimes of c, element for element and in the same order, an empty
\* list included.
C27_ListRoundTrip == [][C27_Step]_vars

\* C30: every config that executeHappySettings has stored has as many
\* schedule times as its cadence.
C30_CadenceMatchesSlots ==
    \A r \in configRows : Len(MapRowToConfig(r).scheduleTimes) = r.cadence

-----------------------------------------------------------------------------
(* Claims about the scheduled delivery *)

SameSlotAndMinute(d1, d2) ==
    /\ d1.guildId = d2.guildId
    /\ d1.slot = d2.slot
    /\ d1.minute = d2.minute

\* C1: once sendScheduledMessage(g, s) has delivered and returned, a later
\* call for (g, s) that starts less than SLOT_LOCK_SECONDS afterwards delivers
\* nothing; the lock lasts longer than the interval between two ticks.
C1_SequentialGuard ==
    /\ SLOT_LOCK_SECONDS > CronIntervalSeconds
    /\ \A d \in delivered : ~d.afterReturn

\* C2: with no failure and no restart, overlapping ticks deliver at most one
\* message for a tenant and slot within one nominal minute.
C2_ConcurrentGuard ==
    faults = 0 /\ restarts = 0 =>
        \A d1, d2 \in delivered : SameSlotAndMinute(d1, d2) => d1 = d2

\* C3: with no failure, a message posted before a restart is not followed, in
\* the same nominal minute, by a second message for the same tenant and slot
\* posted after the restart.
C3_RestartSafety ==
    faults = 0 =>
        \A d1, d2 \in delivered :
            SameSlotAndMinute(d1, d2) => d1.epoch = d2.epoch

\* the tenant has an active day and a slot equal to its local time at t
Due(g, t) ==
    LET cfg == guildConfigs[g] IN
    /\ GetCurrentDayOfWeek(cfg.timezone, t) \in cfg.activeDays
    /\ \E n \in DOMAIN cfg.scheduleTimes :
          cfg.scheduleTimes[n] = GetCurrentTimeInTimezone(cfg.timezone, t)

DeliveredIn(i, g) == \E d \in delivered : d.tick = i /\ d.guildId = g

\* C4: processGuilds never rejects; when the task of one tenant fails, every
\* other tenant that is due in that tick is still attempted, and a tick
\* starts each tenant's task as it would start it alone.
C4_Step ==
    /\ \A i \in DOMAIN ticks : ticks[i].status # "rejected"
    /\ \A i \in DOMAIN ticks : \A g, h \in Guilds :
          /\ g # h
          /\ ticks[i].tasks[g].error # "none"
          /\ Due(h, ticks[i].startedAt)
          /\ ticks[i].tasks[h].error # "task"
          => ticks[i].tasks[h].calls # <<>>
    /\ Len(ticks') = Len(ticks) + 1 =>
          \A h \in Guilds :
              ticks'[Len(ticks')].tasks[h].error = "none" =>
                  ticks'[Len(ticks')].tasks[h] =
                      StartTask(h, guildConfigs, clientGuilds, cooldowns, now,
                                delivered, FALSE)

C4_FaultIsolation == [][C4_Step]_vars

\* a returned tick in which the task of g1 threw and g2 got its message
C4_Witness ==
    \E i \in DOMAIN ticks :
        /\ ticks[i].status = "resolved"
        /\ ticks[i].tasks["g1"].error = "task"
        /\ DeliveredIn(i, "g2")

\* C6: the scheduler is Stopped or Running; at most one cron task is started
\* and isSchedulerRunning() is true iff one is; startScheduler while Running
\* and stopScheduler while Stopped change nothing.
C6_Step ==
    /\ schedulerTask \in {"null", "task"}
    /\ cronActive \in {0, 1}
    /\ IsSchedulerRunning <=> cronActive = 1
    /\ lastOp' # lastOp /\ lastOp'.op = "startScheduler" /\ IsSchedulerRunning =>
          UNCHANGED <<schedulerTask, cronActive, ticks>>
    /\ lastOp' # lastOp /\ lastOp'.op = "stopScheduler" /\ ~IsSchedulerRunning =>
          UNCHANGED <<schedulerTask, cronActive, ticks>>
    /\ lastOp' # lastOp /\ lastOp'.op = "startScheduler" => IsSchedulerRunning'
    /\ lastOp' # lastOp /\ lastOp'.op = "stopScheduler" => ~IsSchedulerRunning'

C6_Lifecycle == [][C6_Step]_vars

\* startScheduler was called while Running, and one cron task is started
C6_Witness ==
    /\ lastOp = SchedOp("startScheduler", 0)
    /\ cronActive = 1
    /\ IsSchedulerRunning

\* C8: sendScheduledMessage is called for tenant g and slot s in a tick only
\* if g's local weekday at the tick is in activeDays, s is one of
\* scheduleTimes and s is g's local HH:MM at the tick.
C8_DeliveryGating ==
    \A i \in DOMAIN ticks : \A g \in Guilds :
        LET cfg == guildConfigs[g]
            t == ticks[i].startedAt
            calls == ticks[i].tasks[g].calls
        IN  /\ \A n \in DOMAIN calls :
                  /\ GetCurrentDayOfWeek(cfg.timezone, t) \in cfg.activeDays
                  /\ \E m \in DOMAIN cfg.scheduleTimes : cfg.scheduleTimes[m] = calls[n]
                  /\ calls[n] = GetCurrentTimeInTimezone(cfg.timezone, t)
            /\ GetCurrentDayOfWeek(cfg.timezone, t) \notin cfg.activeDays =>
                  calls = <<>> /\ ~DeliveredIn(i, g)

\* a tick that delivered to g1 and made no call for g2, whose day is inactive
C8_Witness ==
    \E i \in DOMAIN ticks :
        /\ DeliveredIn(i, "g1")
        /\ ticks[i].tasks["g2"].calls = <<>>
        /\ GetCurrentDayOfWeek(guildConfigs["g2"].timezone, ticks[i].startedAt)
              \notin guildConfigs["g2"].activeDays
        /\ GetCurrentTimeInTimezone(guildConfigs["g2"].timezone, ticks[i].startedAt)
              = guildConfigs["g2"].scheduleTimes[1]

-----------------------------------------------------------------------------
(* Claims checked under LiveSpec *)

\* C5: a tick starts the task of every tenant at once, whatever the other
\* tasks wait on; it returns only when every task has settled; and every
\* tick that runs eventually returns.
C5_Started ==
    \A i \in DOMAIN ticks : \A g \in Guilds :
        /\ ticks[i].tasks[g].pc \in {"fetching", "sending", "posted", "settled"}
        /\ ticks[i].tasks[g].currentDay \in 1..7

C5_Joined ==
    \A i \in DOMAIN ticks :
        ticks[i].status = "resolved" =>
            \A g \in Guilds : ticks[i].tasks[g].pc = "settled"

C5_JoinSemantics ==
    /\ [](C5_Started /\ C5_Joined)
    /\ \A i \in 1..MaxTicks :
          (i \in DOMAIN ticks /\ ticks[i].status = "running")
              ~> (i \in DOMAIN ticks /\ ticks[i].status = "resolved")

\* a returned tick in which both tenants got their message
C5_Witness ==
    \E i \in DOMAIN ticks :
        /\ ticks[i].status = "resolved"
        /\ \A g \in Guilds : DeliveredIn(i, g)

\* C23: every row of the sent history is the row of a message that was
\* posted: the guild has a posted message carrying the content of the row.
C23_HistoryAfterDelivery ==
    \A g \in Guilds : \A n \in DOMAIN sentMessages[g] :
        \E d \in delivered :
            d.guildId = g /\ d.item = sentMessages[g][n].contentId

\* the store without the rows whose key carries the guild
WithoutGuild(cd, guildId) ==
    [k \in DOMAIN cd |-> IF k[2] = guildId THEN NoRow ELSE cd[k]]

\* the tenant tasks of the guild that the step has moved
SteppedFor(g) ==
    /\ Len(ticks') = Len(ticks)
    /\ \E i \in DOMAIN ticks : ticks'[i].tasks[g] # ticks[i].tasks[g]

C29_Step ==
    /\ \A A \in Guilds : \A B \in Guilds \ {A} :
          SteppedFor(A) /\ ~SteppedFor(B) =>
              /\ sentMessages'[B] = sentMessages[B]
              /\ \A k \in DOMAIN cooldowns :
                    k[2] = B => cooldowns'[k] = cooldowns[k]
              /\ \A n \in DOMAIN sentMessages'[A] :
                    sentMessages'[A][n].guildId = A
              /\ \A i \in DOMAIN ticks :
                    ticks'[i].tasks[A] # ticks[i].tasks[A]
                        /\ ticks[i].tasks[A].pc = "fetching" =>
                    \A failed \in BOOLEAN :
                        Continue(i, A, cooldowns, delivered, failed)
                          = Continue(i, A, WithoutGuild(cooldowns, B),
                                     delivered, failed)
    /\ Len(ticks') > Len(ticks) =>
          /\ UNCHANGED <<cooldowns, sentMessages>>
          /\ \A A \in Guilds : \A B \in Guilds \ {A} :
                StartTask(A, guildConfigs, clientGuilds, cooldowns, now,
                          delivered, FALSE)
                  = StartTask(A, guildConfigs, clientGuilds,
                              WithoutGuild(cooldowns, B), now, delivered, FALSE)

\* C29: a step of the task of one guild leaves the cooldown rows and the
\* history rows of every other guild as they are, writes history rows of its
\* own guild only, and whether its calls proceed does not depend on the
\* cooldown rows of another guild.
C29_TenantIsolation == [][C29_Step]_vars

\* the task of g1 has delivered and locked its slot while the task of g2,
\* started in the same tick, is in flight and g2 has no slot lock
C29_Witness ==
    \E i \in DOMAIN ticks :
        /\ DeliveredIn(i, "g1")
        /\ \E k \in DOMAIN cooldowns : k[2] = "g1" /\ cooldowns[k] # NoRow
        /\ ticks[i].tasks["g2"].pc \in {"fetching", "sending"}
        /\ \A k \in DOMAIN cooldowns : k[2] = "g2" => cooldowns[k] = NoRow

\* C7: stopScheduler leaves the running tenant tasks, the posted messages
\* and the store as they are; no tick starts while the scheduler is stopped;
\* a delivery that returned without an error has its history row and its slot
\* lock; and every tenant task in flight eventually settles, stopped or not.
C7_Completed ==
    \A d \in delivered :
        d.returnedAt >= 0 /\ ticks[d.tick].tasks[d.guildId].error = "none" =>
            /\ cooldowns[GetSlotCooldownKey(d.guildId, d.slot)] # NoRow
            /\ ParseDate(cooldowns[GetSlotCooldownKey(d.guildId, d.slot)])
                  >= d.returnedAt + SLOT_LOCK_SECONDS * MsPerSecond
            /\ \E n \in DOMAIN sentMessages[d.guildId] :
                  sentMessages[d.guildId][n] =
                      [guildId |-> d.guildId,
                       channelId |-> guildConfigs[d.guildId].channelId,
                       contentId |-> d.item]

C7_StopStep ==
    /\ lastOp' # lastOp /\ lastOp'.op = "stopScheduler" =>
          UNCHANGED <<ticks, delivered, cooldowns, sentMessages>>
    /\ Len(ticks') > Len(ticks) => IsSchedulerRunning /\ cronActive > 0

C7_StopKeepsInFlight ==
    /\ []C7_Completed
    /\ [][C7_StopStep]_vars
    /\ \A i \in 1..MaxTicks : \A g \in Guilds :
          (i \in DOMAIN ticks /\ ticks[i].tasks[g].pc # "settled")
              ~> (i \in DOMAIN ticks /\ ticks[i].tasks[g].pc = "settled")

\* the scheduler is stopped, and a message posted after the stop has its lock
C7_Witness ==
    /\ ~IsSchedulerRunning
    /\ \E d \in delivered :
          /\ d.schedulerStopped
          /\ d.returnedAt >= 0
          /\ d.locked
          /\ OnCooldown(GetSlotCooldownKey(d.guildId, d.slot))
          /\ ticks[d.tick].tasks[d.guildId].pc = "settled"

-----------------------------------------------------------------------------
(* Claims about one call of sendScheduledMessage *)

\* the step ends a call of the task (i, g) in which nothing was posted:
\* getFormattedContent or channel.send failed
FailedBeforePosting(i, g) ==
    /\ ticks'[i].tasks[g] # ticks[i].tasks[g]
    /\ \/ ticks[i].tasks[g].pc = "fetching" /\ ticks'[i].tasks[g].pc # "sending"
       \/ ticks[i].tasks[g].pc = "sending" /\ ticks'[i].tasks[g].pc # "posted"

C31_Step ==
    \A i \in DOMAIN ticks : \A g \in Guilds :
        Len(ticks') = Len(ticks) /\ FailedBeforePosting(i, g) =>
            /\ ticks'[i].tasks[g].error = "call"
            /\ ticks'[i].status = ticks[i].status
            /\ ticks'[i].tasks[g].calls = ticks[i].tasks[g].calls
                  => ticks'[i].tasks[g].pc = "settled"
            /\ cooldowns' = cooldowns
            /\ delivered' = delivered

\* C31: when getFormattedContent or channel.send fails in
\* sendScheduledMessage, the error is caught in the call (the tenant task goes
\* on with its loop, the tick is not failed) and the call sets no slot lock.
C31_FailureContained == [][C31_Step]_vars

\* a returned tick in which the call for g1 failed after it had fetched its
\* content, nothing was posted and the slot of g1 has no lock
C31_Witness ==
    \E i \in DOMAIN ticks :
        /\ ticks[i].status = "resolved"
        /\ ticks[i].tasks["g1"].error = "call"
        /\ ticks[i].tasks["g1"].calls = <<T0915>>
        /\ ~DeliveredIn(i, "g1")
        /\ sentMessages["g1"] # <<>>
        /\ cooldowns[GetSlotCooldownKey("g1", T0915)] = NoRow

\* the slot that is due for the tenant at t: its local HH:MM
DueSlot(g, t) == GetCurrentTimeInTimezone(guildConfigs[g].timezone, t)

\* the messages the tick i posted for the tenant and the slot
DeliveredFor(i, g, slot) ==
    {d \in delivered : d.tick = i /\ d.guildId = g /\ d.slot = slot}

C32_Step ==
    /\ Len(ticks') = Len(ticks) + 1 =>
          \A g \in Guilds :
              LET task == ticks'[Len(ticks')].tasks[g] IN
              /\ Due(g, now)
              /\ guildConfigs[g].channelId # ""
              /\ g \in clientGuilds
              /\ ~IsOnCooldown(cooldowns, GetSlotCooldownKey(g, DueSlot(g, now)), now)
              /\ task.error # "task"
              => task.pc = "fetching" /\ task.slot = DueSlot(g, now)
    /\ \A i \in DOMAIN ticks : \A g \in Guilds :
          LET task == ticks[i].tasks[g] IN
          /\ Len(ticks') = Len(ticks) /\ ticks'[i].tasks[g] # task
                /\ ~FailedBeforePosting(i, g) =>
                \/ task.pc = "fetching" /\ ticks'[i].tasks[g].pc = "sending"
                      /\ DeliveredFor(i, g, task.slot) = {}
                      /\ UNCHANGED <<delivered, cooldowns>>
                \/ task.pc = "sending" /\ ticks'[i].tasks[g].pc = "posted"
                      /\ Cardinality(DeliveredFor(i, g, task.slot)') = 1
                      /\ UNCHANGED <<sentMessages, cooldowns>>
                \/ task.pc = "posted"
                      /\ Len(sentMessages'[g]) = Len(sentMessages[g]) + 1
                      /\ IsOnCooldown(cooldowns', GetSlotCooldownKey(g, task.slot), now)
          /\ ticks[i].status = "running" /\ ticks'[i].status = "resolved" =>
                \A slot \in {d.slot : d \in {e \in delivered : e.tick = i /\ e.guildId = g}} :
                    /\ Cardinality(DeliveredFor(i, g, slot)) = 1
                    /\ IsOnCooldown(cooldowns, GetSlotCooldownKey(g, slot), now)

\* C32: a tick in which the tenant is due (active weekday, local HH:MM equal
\* to a slot), the slot lock is not in force and the destination resolves
\* goes on to select content; when selection and delivery succeed it posts
\* exactly one message for the slot, after the content was selected, then
\* writes the history row and sets the lock, and the lock is in force when
\* the tick returns.
C32_DueSlotDelivered == [][C32_Step]_vars

\* every call of sendScheduledMessage made for the tenant so far has ended,
\* and none of them posted a message
NothingDeliveredTo(g) ==
    /\ \A i \in DOMAIN ticks : ticks[i].tasks[g].pc = "settled"
    /\ \A d \in delivered : d.guildId # g

C33_Step ==
    /\ \A g \in Guilds :
          NothingDeliveredTo(g) =>
              /\ sentMessages[g] = <<>>
              /\ \A k \in SlotKeys : k[2] = g => cooldowns[k] = NoRow
    /\ Len(ticks') = Len(ticks) + 1 => UNCHANGED <<cooldowns, sentMessages>>
    /\ \A i \in DOMAIN ticks : \A g \in Guilds :
          Len(ticks') = Len(ticks) /\ FailedBeforePosting(i, g) =>
              /\ cooldowns' = cooldowns
              /\ \A h \in Guilds \ {g} : sentMessages'[h] = sentMessages[h]

\* C33: a call of sendScheduledMessage that ends without posting a message
\* (skipped for a missing channel, a lock in force or an unresolvable
\* guild, or failed in content selection or in the send) leaves the cooldown
\* store and the sent history as they were before it; a skipped call writes
\* nothing, so it does not move the expiry of the lock.
C33_NoDeliveryNoChange == [][C33_Step]_vars

C34_Step ==
    \A i \in DOMAIN ticks : \A g \in Guilds :
        /\ Len(ticks') = Len(ticks)
        /\ ticks[i].tasks[g].pc = "posted"
        /\ ticks'[i].tasks[g] # ticks[i].tasks[g]
        => IsOnCooldown(cooldowns', GetSlotCooldownKey(g, ticks[i].tasks[g].slot), now')

\* C34: when a call of sendScheduledMessage that posted its message returns,
\* the lock of its slot is in force, whether or not the history row could be
\* written after the send.
C34_LockFollowsDelivery == [][C34_Step]_vars

\* the messages posted for the tenant by the scheduler and by /now
DeliveredCount(g) ==
    Cardinality({d \in delivered : d.guildId = g})
      + Cardinality({i \in DOMAIN interactions :
                        interactions[i].guildId = g /\ interactions[i].deliveredAt >= 0})

\* no call of sendScheduledMessage or executeHappyNow for the tenant is running
Quiescent(g) ==
    /\ \A i \in DOMAIN ticks : ticks[i].tasks[g].pc = "settled"
    /\ \A i \in DOMAIN interactions :
          interactions[i].guildId = g => interactions[i].outcome # "pending"

\* C35: when no delivery of the tenant is under way and no store write has
\* failed, its sent history holds one row for each message posted to it by
\* the scheduler or by /now, and each row carries a destination.
C35_OneRowPerDelivery ==
    \A g \in Guilds :
        Quiescent(g) /\ faults = 0 =>
            /\ Len(sentMessages[g]) = DeliveredCount(g)
            /\ \A n \in DOMAIN sentMessages[g] : sentMessages[g][n].channelId # ""

-----------------------------------------------------------------------------
(* Claims about the two queries of the cooldown store *)

\* C36: at every instant and for every key, isOnCooldown(key) is true
\* exactly when getRemainingMs(key) is greater than 0.
C36_QueriesAgree ==
    \A k \in DOMAIN cooldowns :
        IsOnCooldown(cooldowns, k, now) <=> GetRemainingMs(cooldowns, k, now) > 0

-----------------------------------------------------------------------------
(* Claims about slot lists with a repeated entry *)

\* C37: with a slot entered twice in scheduleTimes, or a cadence that is not
\* the number of slots, a tick posts at most one message for a tenant and
\* slot, no tick fails, and every call of sendScheduledMessage is for a slot
\* that is in scheduleTimes.
C37_DuplicateSlotSentOnce ==
    \A i \in DOMAIN ticks : \A g \in Guilds :
        /\ ticks[i].status # "rejected"
        /\ \A n \in DOMAIN ticks[i].tasks[g].calls :
              IsSlotScheduled(guildConfigs[g], ticks[i].tasks[g].calls[n])
        /\ \A n \in DOMAIN guildConfigs[g].scheduleTimes :
              Cardinality(DeliveredFor(i, g, guildConfigs[g].scheduleTimes[n])) <= 1

-----------------------------------------------------------------------------
(* Claims about the pruning of the sent history *)

\* the row was written more than the given number of days before the instant
OlderThan(row, i, days) ==
    \/ i.day - row.sentAt.date > days
    \/ i.day - row.sentAt.date = days /\ i.tod > row.sentAt.tod

RowsOfGuild(sm, g) == {sm[g][n] : n \in DOMAIN sm[g]}

C38_Step ==
    lastOp'.op = "sentCleanup" =>
        LET i == Instant(dayOffset, now) IN
        /\ \A g \in Guilds :
              /\ RowsOfGuild(sentMessages', g) \subseteq RowsOfGuild(sentMessages, g)
              /\ \A row \in RowsOfGuild(sentMessages, g) \ RowsOfGuild(sentMessages', g) :
                    OlderThan(row, i, CLEANUP_DAYS)
              /\ \A c \in HistoryContentIds :
                    WasSentRecently(sentMessages', g, c, ANTI_REPETITION_DAYS, i)
                      <=> WasSentRecently(sentMessages, g, c, ANTI_REPETITION_DAYS, i)
        /\ lastOp'.ret = RowCount(sentMessages, Guilds) - RowCount(sentMessages', Guilds)

\* C38: cleanup(90) removes only rows written more than 90 days ago and
\* returns the number of rows it removed, and wasSentRecently(g, c, 30)
\* answers the same before and after it, for every tenant and content.
C38_CleanupKeepsLookups == [][C38_Step]_vars

\* a cleanup has removed a row of g1 while a row of g1 that the lookup
\* counts as recent is still there
C38_Witness ==
    /\ lastOp.op = "sentCleanup"
    /\ lastOp.ret >= 1
    /\ Len(sentMessages["g1"]) = 1
    /\ \E c \in HistoryContentIds :
          WasSentRecently(sentMessages, "g1", c, ANTI_REPETITION_DAYS,
                          Instant(dayOffset, now))

-----------------------------------------------------------------------------
(* Claims about the per-tenant delete of the cooldown store *)

C39_Step ==
    lastOp'.op = "deleteForGuild" =>
        \A k \in DOMAIN cooldowns :
            GuildIdText(k[2]) = lastOp'.key => ~IsOnCooldown(cooldowns', k, now')

\* C39: after deleteForGuild(g) no entry whose key names the guild g is on
\* cooldown, the slot locks "scheduled:<g>:<slot>" included.
C39_DeleteForGuildDeletesAll == [][C39_Step]_vars

====
